---- MODULE Spec2Model ----
(***************************************************************************)
(* Blackjack rules engine (Card, Deck, Shoe, Hand, Blackjack) and the      *)
(* parts of its browser driver (BlackjackUI) that call into it.            *)
(*                                                                         *)
(* Representation notes.                                                   *)
(*  - A Card is a record [suit, rank, id]; the derived colour is only      *)
(*    read by the renderer and is left out.                                *)
(*  - Shoe.cards and Shoe.discardPile are JavaScript arrays.  cards is     *)
(*    only ever read through pop() and length, and every array written to  *)
(*    it is passed through shuffle() (a Fisher-Yates shuffle driven by     *)
(*    Math.random, so every order is possible) before the next pop().      *)
(*    discardPile is only read through length and through the copy into    *)
(*    cards that is shuffled at once.  Both are therefore kept as bags     *)
(*    (multisets, so that a card stored twice is still visible), and       *)
(*    pop() takes any card of the bag: choosing the card when it is popped *)
(*    is the same as choosing the permutation when it is shuffled.         *)
(*  - currentRoundDealt is null/undefined or a Set of ids: field           *)
(*    `tracking` says whether the Set exists, `currentRoundDealt` holds    *)
(*    its members.                                                         *)
(*  - Array indices are 0-based as in the source; Sequences are 1-based,   *)
(*    so playerHands[i] of the source is playerHands[i + 1] here.          *)
(***************************************************************************)
EXTENDS Integers, Sequences, FiniteSets, Bags, TLC

(***************************************************************************)
(* Bounds of the model.                                                    *)
(***************************************************************************)
\* the numberOfDecks a game is constructed with
GameDecks == {2}
\* the numberOfDecks a bare shoe is constructed with
ShoeDecks == {1, 2}
\* how many operations are called on the engine in one behaviour
MaxOps == 4
\* how many clicks the user makes on the page in one behaviour
MaxClicks == 4
\* how many Aces a hand under getScore holds
MaxAces == 12
\* how many cards other than Aces a hand under getScore holds
MaxOthers == 2
\* how many results handleGameEnd is called with in one behaviour
MaxResults == 2
\* how many Card objects are constructed in one behaviour of a bare shoe
MaxCards == 6
\* the shuffles considered: they leave on top of the array one of its cards
\* at these positions, counted from the lowest id
TopCards == {1, 2}

(***************************************************************************)
(* Card, Deck                                                              *)
(***************************************************************************)
suits == <<"S", "C", "H", "D">>

ranks == <<"A", "2", "3", "4", "5", "6", "7", "8", "9", "10", "J", "Q", "K">>

\* The cards of the 52-card deck that a modelled Deck is built from, as
\* <<suit index, rank index>> in construction order: the ace, the jack and
\* the queen of the first suit.
DeckCards == << <<1, 1>>, <<1, 11>>, <<1, 12>> >>

DeckSize == Len(DeckCards)

Card(suit, rank, id) == [suit |-> suit, rank |-> rank, id |-> id]

\* new Deck() when Card._nextId is nid: the cards in construction order
Deck(nid) ==
    [k \in 1..DeckSize |->
        Card(suits[DeckCards[k][1]], ranks[DeckCards[k][2]], nid + k - 1)]

parseInt(rank) ==
    CASE rank = "2" -> 2 [] rank = "3" -> 3 [] rank = "4" -> 4
      [] rank = "5" -> 5 [] rank = "6" -> 6 [] rank = "7" -> 7
      [] rank = "8" -> 8 [] rank = "9" -> 9 [] rank = "10" -> 10

getValue(card) ==
    IF card.rank \in {"J", "Q", "K"} THEN 10
    ELSE IF card.rank = "A" THEN 11
    ELSE parseInt(card.rank)

(***************************************************************************)
(* Shoe                                                                    *)
(***************************************************************************)
Max(a, b) == IF a >= b THEN a ELSE b

\* the multiset of the elements of a sequence (array contents, order dropped)
SeqToBag(s) ==
    LET elems == {s[k] : k \in 1..Len(s)}
    IN  [e \in elems |-> Cardinality({k \in 1..Len(s) : s[k] = e})]

One(card) == SetToBag({card})

\* the cards pushed by the loop of initializeShoe, in push order
RECURSIVE FreshDecks(_, _)
FreshDecks(n, nid) ==
    IF n = 0 THEN <<>> ELSE Deck(nid) \o FreshDecks(n - 1, nid + DeckSize)

\* shuffle(): every order of the array is possible and the order is only read
\* by pop(); on the bag it leaves the contents as they are
shuffle(sh) == sh

\* cards.pop() on a non-empty array: the cards it can return
pop(cards) ==
    LET S == BagToSet(cards)
    IN  {c \in S : Cardinality({d \in S : d.id < c.id}) + 1 \in TopCards}

\* faulty variant of initializeShoe: the ids of every build start at 1 again
initializeShoe_idsRestart(sh, nid) ==
    LET fresh == FreshDecks(sh.numberOfDecks, 1)
    IN  [shoe   |-> [shuffle([sh EXCEPT !.cards = SeqToBag(fresh)])
                        EXCEPT !.endAlerted = FALSE],
         nextId |-> 1 + Len(fresh)]

\* Each Shoe operator takes the shoe and Card._nextId and yields both.
initializeShoe(sh, nid) ==
    LET fresh == FreshDecks(sh.numberOfDecks, nid)
    IN  [shoe   |-> [shuffle([sh EXCEPT !.cards = SeqToBag(fresh)])
                        EXCEPT !.endAlerted = FALSE],
         nextId |-> nid + Len(fresh)]

\* new Shoe(numberOfDecks); Card._nextId is 1 before the first Card is built
NewShoe(numberOfDecks) ==
    initializeShoe([cards             |-> EmptyBag,
                    discardPile       |-> EmptyBag,
                    numberOfDecks     |-> numberOfDecks,
                    tracking          |-> FALSE,
                    currentRoundDealt |-> {},
                    endAlerted        |-> FALSE], 1)

startRound(sh) == [sh EXCEPT !.tracking = TRUE, !.currentRoundDealt = {}]

endRound(sh) == [sh EXCEPT !.tracking = FALSE, !.currentRoundDealt = {}]

\* faulty variant of RefillFromDiscard: the discard pile is not emptied
RefillFromDiscard_keepsPile(sh) == shuffle([sh EXCEPT !.cards = sh.discardPile])

\* cards = [...discardPile]; discardPile = []; shuffle()
RefillFromDiscard(sh) ==
    shuffle([sh EXCEPT !.cards = sh.discardPile, !.discardPile = EmptyBag])

\* faulty variant of DealRefill: an empty cards array is always rebuilt from
\* fresh decks
DealRefill_alwaysRebuilds(sh, nid) ==
    IF BagCardinality(sh.cards) = 0
    THEN initializeShoe(sh, nid)
    ELSE [shoe |-> sh, nextId |-> nid]

\* deal(), the refill on entry
DealRefill(sh, nid) ==
    IF BagCardinality(sh.cards) = 0
    THEN IF BagCardinality(sh.discardPile) = 0
         THEN initializeShoe(sh, nid)
         ELSE [shoe |-> RefillFromDiscard(sh), nextId |-> nid]
    ELSE [shoe |-> sh, nextId |-> nid]

MinAttempts == 10
ExtraAttempts == 5

\* faulty variant of AttemptLimit: the search gives up one card early
AttemptLimit_short(available) == Max(1, available - 1)

\* deal(), maxAttempts for a cards array of the length given
AttemptLimit(available) == Max(MinAttempts, available + ExtraAttempts)

\* faulty variant of DealSearch: the card popped first is returned whether
\* or not the round has dealt it
DealSearch_noCheck(sh, attempts, maxAttempts) ==
    IF BagCardinality(sh.cards) > 0 /\ attempts < maxAttempts
    THEN {[found |-> TRUE,
           shoe  |-> [sh EXCEPT !.cards = @ (-) One(card),
                                !.currentRoundDealt =
                                    IF sh.tracking THEN @ \cup {card.id} ELSE @],
           card  |-> <<card>>,
           attempts |-> attempts + 1]
          : card \in pop(sh.cards)}
    ELSE {[found |-> FALSE, shoe |-> sh, card |-> <<>>, attempts |-> attempts]}

\* deal(), the search loop: the set of ways it can end.  found says whether
\* the loop returned a card (card is then <<that card>>) or fell through,
\* attempts is the value of the loop's counter when it ended.
RECURSIVE DealSearch(_, _, _)
DealSearch(sh, attempts, maxAttempts) ==
    IF BagCardinality(sh.cards) > 0 /\ attempts < maxAttempts
    THEN UNION {
           LET popped == [sh EXCEPT !.cards = @ (-) One(card)]
           IN  IF ~sh.tracking
               THEN {[found |-> TRUE, shoe |-> popped, card |-> <<card>>,
                      attempts |-> attempts + 1]}
               ELSE IF card.id \notin sh.currentRoundDealt
               THEN {[found |-> TRUE,
                      shoe  |-> [popped EXCEPT !.currentRoundDealt = @ \cup {card.id}],
                      card  |-> <<card>>,
                      attempts |-> attempts + 1]}
               ELSE DealSearch([popped EXCEPT !.discardPile = @ (+) One(card)],
                               attempts + 1, maxAttempts)
           : card \in pop(sh.cards) }
    ELSE {[found |-> FALSE, shoe |-> sh, card |-> <<>>, attempts |-> attempts]}

\* faulty variant of FallbackRefill: the fallback pops without refilling
FallbackRefill_none(sh, nid) == [shoe |-> sh, nextId |-> nid]

\* deal(), the refill of the fallback
FallbackRefill(sh, nid) ==
    IF BagCardinality(sh.cards) = 0
    THEN IF BagCardinality(sh.discardPile) > 0
         THEN [shoe |-> RefillFromDiscard(sh), nextId |-> nid]
         ELSE initializeShoe(sh, nid)
    ELSE [shoe |-> sh, nextId |-> nid]

\* faulty variant of EndOfShoe: the guard flag is never set
EndOfShoe_noGuard(sh, initialAvailable) ==
    IF initialAvailable = 1 /\ ~sh.endAlerted
    THEN [shoe |-> sh, fired |-> 1]
    ELSE [shoe |-> sh, fired |-> 0]

\* deal(), the end-of-shoe notification: the shoe afterwards and how many
\* times the notification (hook or default notice) ran
EndOfShoe(sh, initialAvailable) ==
    IF initialAvailable = 1 /\ ~sh.endAlerted
    THEN [shoe |-> [sh EXCEPT !.endAlerted = TRUE], fired |-> 1]
    ELSE [shoe |-> sh, fired |-> 0]

\* deal(), the fallback: pop whatever is next.  pop() of an empty array is
\* undefined: card is then <<>>.
Fallback(sh, nid, initialAvailable) ==
    LET r == FallbackRefill(sh, nid)
        pops == IF BagCardinality(r.shoe.cards) = 0
                THEN {[shoe |-> r.shoe, card |-> <<>>]}
                ELSE {[shoe |-> [r.shoe EXCEPT
                                   !.cards = @ (-) One(card),
                                   !.currentRoundDealt =
                                       IF r.shoe.tracking THEN @ \cup {card.id} ELSE @],
                       card |-> <<card>>] : card \in pop(r.shoe.cards)}
    IN  {LET e == EndOfShoe(p.shoe, initialAvailable)
         IN  [shoe |-> e.shoe, nextId |-> r.nextId, card |-> p.card, fired |-> e.fired]
         : p \in pops}

\* deal(): the set of outcomes [shoe, nextId, card, fired, search], search
\* being how the search loop of the call ended: its counter, whether it
\* returned the card, and the lengths of cards and discardPile at that point
deal(sh, nid) ==
    LET r0               == DealRefill(sh, nid)
        maxAttempts      == AttemptLimit(BagCardinality(r0.shoe.cards))
        initialAvailable == BagCardinality(r0.shoe.cards)
    IN  UNION {
           LET search == [attempts    |-> s.attempts,
                          found       |-> s.found,
                          cards       |-> BagCardinality(s.shoe.cards),
                          discardPile |-> BagCardinality(s.shoe.discardPile)]
           IN  IF s.found
               THEN {[shoe |-> s.shoe, nextId |-> r0.nextId, card |-> s.card,
                      fired |-> 0, search |-> search]}
               ELSE {f @@ [search |-> search]
                     : f \in Fallback(s.shoe, r0.nextId, initialAvailable)}
           : s \in DealSearch(r0.shoe, 0, maxAttempts) }

\* addToDiscardPile(cards): cs is the array passed, or the one card passed
\* as <<card>>; both branches push the cards given
addToDiscardPile(sh, cs) == [sh EXCEPT !.discardPile = @ (+) SeqToBag(cs)]

(***************************************************************************)
(* Hand                                                                    *)
(***************************************************************************)
\* originalBet is not set by the Hand constructor: it is undefined until
\* placeBet, double or split assigns it
Undefined == -1

\* new Hand().  doubled is not set by the constructor either; it is only read
\* through !!hand.doubled, so undefined is kept as FALSE.
NewHand ==
    [cards          |-> <<>>,
     bet            |-> 0,
     hasStood       |-> FALSE,
     hasSurrendered |-> FALSE,
     isSplit        |-> FALSE,
     originalBet    |-> Undefined,
     doubled        |-> FALSE]

\* hand.addCard(card) with the result of deal(): card is <<c>>, or <<>> when
\* deal() returned undefined
addCard(hand, card) == [hand EXCEPT !.cards = @ \o card]

\* getScore(), the for loop: score after the first n cards
RECURSIVE LoopScore(_, _)
LoopScore(cs, n) ==
    IF n = 0 THEN 0
    ELSE LoopScore(cs, n - 1) + (IF cs[n].rank = "A" THEN 11 ELSE getValue(cs[n]))

\* getScore(), the for loop: aces after the first n cards
RECURSIVE LoopAces(_, _)
LoopAces(cs, n) ==
    IF n = 0 THEN 0
    ELSE LoopAces(cs, n - 1) + (IF cs[n].rank = "A" THEN 1 ELSE 0)

\* getScore(), the for loop: [score, aces] over the first n cards
ScoreLoop(cs, n) == [score |-> LoopScore(cs, n), aces |-> LoopAces(cs, n)]

\* faulty variant of the while loop of getScore: one Ace at most is counted as 1
Downgrade_once(score, aces) ==
    IF score > 21 /\ aces > 0 THEN score - 10 ELSE score

\* getScore(), the while loop
RECURSIVE Downgrade(_, _)
Downgrade(score, aces) ==
    IF score > 21 /\ aces > 0 THEN Downgrade(score - 10, aces - 1) ELSE score

getScore(hand) ==
    LET t == ScoreLoop(hand.cards, Len(hand.cards))
    IN  Downgrade(t.score, t.aces)

isBusted(hand) == getScore(hand) > 21

\* faulty variant of isBlackjack: every hand scoring 21 is a blackjack
isBlackjack_anyTwentyOne(hand) == getScore(hand) = 21

isBlackjack(hand) == Len(hand.cards) = 2 /\ getScore(hand) = 21

(***************************************************************************)
(* Blackjack: every operation maps the game g, a record of the engine's    *)
(* mutable state, to the set of games it can leave.  g.returned collects   *)
(* the results of the deal() calls the operation made, g.notices counts    *)
(* the end-of-shoe notifications, g.threw says the operation raised,       *)
(* g.ended lists the hands endHand was called for, g.value is what the    *)
(* operation returns: <<card>>, or <<>> for undefined.                    *)
(***************************************************************************)
\* a falsy amount: undefined or 0
Falsy(x) == x = Undefined \/ x = 0

\* a || b on amounts
OrElse(a, b) == IF Falsy(a) THEN b ELSE a

\* this.shoe.deal() inside an operation: the games after the call; the card
\* is the last entry of returned
DealIn(g) ==
    {[g EXCEPT !.shoe = r.shoe, !.nextId = r.nextId,
               !.notices = @ + r.fired, !.returned = Append(@, r.card)]
     : r \in deal(g.shoe, g.nextId)}

LastDealt(g) == g.returned[Len(g.returned)]

Throw(g) == {[g EXCEPT !.threw = TRUE]}

\* faulty variant of endHand: the turn advances past the last hand
endHand_alwaysAdvances(g, handIndex) ==
    [g EXCEPT !.currentHandIndex = handIndex + 1, !.ended = Append(@, handIndex)]

\* faulty variant of endHand: ending the last hand closes the shoe's round
endHand_endsRound(g, handIndex) ==
    IF handIndex < Len(g.playerHands) - 1
    THEN [g EXCEPT !.currentHandIndex = handIndex + 1, !.ended = Append(@, handIndex)]
    ELSE [g EXCEPT !.shoe = endRound(g.shoe), !.ended = Append(@, handIndex)]

endHand(g, handIndex) ==
    IF handIndex < Len(g.playerHands) - 1
    THEN [g EXCEPT !.currentHandIndex = handIndex + 1, !.ended = Append(@, handIndex)]
    ELSE [g EXCEPT !.ended = Append(@, handIndex)]

\* faulty variant of dealInitialCards: the player is dealt both cards first
dealInitialCards_playerFirst(g) ==
    LET g0 == [g EXCEPT !.shoe = startRound(g.shoe),
                        !.dealerHand = NewHand,
                        !.playerHands = <<NewHand>>,
                        !.currentHandIndex = 0]
        P(x) == [x EXCEPT !.playerHands[1] = addCard(@, LastDealt(x))]
        D(x) == [x EXCEPT !.dealerHand = addCard(@, LastDealt(x))]
    IN  UNION {UNION {UNION {{D(g4) : g4 \in DealIn(D(g3))}
                             : g3 \in DealIn(P(g2))}
                      : g2 \in DealIn(P(g1))}
               : g1 \in DealIn(g0)}

dealInitialCards(g) ==
    LET g0 == [g EXCEPT !.shoe = startRound(g.shoe),
                        !.dealerHand = NewHand,
                        !.playerHands = <<NewHand>>,
                        !.currentHandIndex = 0]
        P(x) == [x EXCEPT !.playerHands[1] = addCard(@, LastDealt(x))]
        D(x) == [x EXCEPT !.dealerHand = addCard(@, LastDealt(x))]
    IN  UNION {UNION {UNION {{D(g4) : g4 \in DealIn(P(g3))}
                             : g3 \in DealIn(D(g2))}
                      : g2 \in DealIn(P(g1))}
               : g1 \in DealIn(g0)}

placeBet(g, amount) ==
    {[g EXCEPT !.playerHands[1].bet = amount,
               !.playerHands[1].originalBet = amount,
               !.playerHands[1].doubled = FALSE]}

\* faulty variant of hit: the hand is ended whether or not it is busted
hit_alwaysEnds(g, handIndex) ==
    {endHand([g1 EXCEPT !.playerHands[handIndex + 1] = addCard(@, LastDealt(g1)),
                        !.value = LastDealt(g1)],
             handIndex)
     : g1 \in DealIn(g)}

hit(g, handIndex) ==
    {LET g2 == [g1 EXCEPT !.playerHands[handIndex + 1] = addCard(@, LastDealt(g1)),
                          !.value = LastDealt(g1)]
     IN  IF isBusted(g2.playerHands[handIndex + 1]) THEN endHand(g2, handIndex) ELSE g2
     : g1 \in DealIn(g)}

\* faulty variant of stand: the hand is marked but not ended
stand_staysOnHand(g, handIndex) ==
    {[g EXCEPT !.playerHands[handIndex + 1].hasStood = TRUE]}

stand(g, handIndex) ==
    {endHand([g EXCEPT !.playerHands[handIndex + 1].hasStood = TRUE], handIndex)}

\* faulty variant of surrender: the hand is marked before its size is checked
surrender_marksFirst(g, handIndex) ==
    IF ~g.allowSurrender THEN Throw(g)
    ELSE IF Len(g.playerHands[handIndex + 1].cards) > 2
    THEN Throw([g EXCEPT !.playerHands[handIndex + 1].hasSurrendered = TRUE])
    ELSE {endHand([g EXCEPT !.playerHands[handIndex + 1].hasSurrendered = TRUE],
                  handIndex)}

\* faulty variant of surrender: a hand of fewer than 2 cards is rejected too
surrender_twoCardsOnly(g, handIndex) ==
    IF ~g.allowSurrender THEN Throw(g)
    ELSE IF Len(g.playerHands[handIndex + 1].cards) # 2 THEN Throw(g)
    ELSE {endHand([g EXCEPT !.playerHands[handIndex + 1].hasSurrendered = TRUE],
                  handIndex)}

surrender(g, handIndex) ==
    IF ~g.allowSurrender THEN Throw(g)
    ELSE IF Len(g.playerHands[handIndex + 1].cards) > 2 THEN Throw(g)
    ELSE {endHand([g EXCEPT !.playerHands[handIndex + 1].hasSurrendered = TRUE],
                  handIndex)}

\* faulty variant of double: the hand is stood whether or not it is busted
double_alwaysStands(g, handIndex) ==
    LET hand == g.playerHands[handIndex + 1]
    IN  IF Len(hand.cards) # 2 THEN Throw(g)
        ELSE LET h1 == IF Falsy(hand.originalBet)
                       THEN [hand EXCEPT !.originalBet = OrElse(hand.bet, 0)]
                       ELSE hand
                 h2 == [h1 EXCEPT !.doubled = TRUE, !.bet = @ * 2]
                 g1 == [g EXCEPT !.playerHands[handIndex + 1] = h2]
             IN  UNION {stand(g2, handIndex)
                        : g2 \in {[x EXCEPT !.value = <<>>] : x \in hit(g1, handIndex)}}

\* faulty variant of double: the raise of the bet is taken from chips
double_debitsChips(g, handIndex) ==
    LET hand == g.playerHands[handIndex + 1]
    IN  IF Len(hand.cards) # 2 THEN Throw(g)
        ELSE LET h1 == IF Falsy(hand.originalBet)
                       THEN [hand EXCEPT !.originalBet = OrElse(hand.bet, 0)]
                       ELSE hand
                 h2 == [h1 EXCEPT !.doubled = TRUE, !.bet = @ * 2]
                 g1 == [g EXCEPT !.playerHands[handIndex + 1] = h2,
                                 !.chips = @ - hand.bet]
             IN  UNION {IF ~isBusted(g2.playerHands[handIndex + 1])
                        THEN stand(g2, handIndex)
                        ELSE {g2}
                        : g2 \in {[x EXCEPT !.value = <<>>] : x \in hit(g1, handIndex)}}

double(g, handIndex) ==
    LET hand == g.playerHands[handIndex + 1]
    IN  IF Len(hand.cards) # 2 THEN Throw(g)
        ELSE LET h1 == IF Falsy(hand.originalBet)
                       THEN [hand EXCEPT !.originalBet = OrElse(hand.bet, 0)]
                       ELSE hand
                 h2 == [h1 EXCEPT !.doubled = TRUE, !.bet = @ * 2]
                 g1 == [g EXCEPT !.playerHands[handIndex + 1] = h2]
             IN  UNION {IF ~isBusted(g2.playerHands[handIndex + 1])
                        THEN stand(g2, handIndex)
                        ELSE {g2}
                        : g2 \in {[x EXCEPT !.value = <<>>] : x \in hit(g1, handIndex)}}

\* faulty variant of split: the first card dealt goes to the source hand
split_dealsSwapped(g, handIndex) ==
    LET hand == g.playerHands[handIndex + 1]
    IN  IF Len(hand.cards) # 2 \/ getValue(hand.cards[1]) # getValue(hand.cards[2])
        THEN Throw(g)
        ELSE LET newHand == [NewHand EXCEPT
                                !.bet = hand.bet,
                                !.originalBet = OrElse(hand.originalBet, hand.bet),
                                !.isSplit = TRUE]
                 n1 == addCard(newHand, <<hand.cards[2]>>)
                 h1 == [hand EXCEPT !.isSplit = TRUE, !.cards = <<hand.cards[1]>>]
             IN  UNION {{[g2 EXCEPT !.playerHands =
                              SubSeq(@, 1, handIndex)
                                  \o <<addCard(h1, LastDealt(g1)),
                                       addCard(n1, LastDealt(g2))>>
                                  \o SubSeq(@, handIndex + 2, Len(@))]
                         : g2 \in DealIn(g1)}
                        : g1 \in DealIn(g)}

split(g, handIndex) ==
    LET hand == g.playerHands[handIndex + 1]
    IN  IF Len(hand.cards) # 2 \/ getValue(hand.cards[1]) # getValue(hand.cards[2])
        THEN Throw(g)
        ELSE LET newHand == [NewHand EXCEPT
                                !.bet = hand.bet,
                                !.originalBet = OrElse(hand.originalBet, hand.bet),
                                !.doubled = FALSE,
                                !.isSplit = TRUE]
                 \* hand.cards.pop() moves the second card to newHand
                 n1 == addCard(newHand, <<hand.cards[Len(hand.cards)]>>)
                 h1 == [hand EXCEPT !.isSplit = TRUE,
                                    !.cards = SubSeq(@, 1, Len(@) - 1)]
                 Insert(x, h, n) ==
                     [x EXCEPT !.playerHands =
                         SubSeq(@, 1, handIndex) \o <<h, n>>
                             \o SubSeq(@, handIndex + 2, Len(@))]
             IN  UNION {{Insert(g2, addCard(h1, LastDealt(g2)),
                                addCard(n1, LastDealt(g1)))
                         : g2 \in DealIn(g1)}
                        : g1 \in DealIn(g)}

dealerPlay(g) ==
    {[g1 EXCEPT !.dealerHand = addCard(@, LastDealt(g1)), !.value = LastDealt(g1)]
     : g1 \in DealIn(g)}

\* faulty variant of shouldDealerHit: the dealer stands on every 17
shouldDealerHit_standsOn17(g) == getScore(g.dealerHand) < 17

shouldDealerHit(g) ==
    LET score == getScore(g.dealerHand)
        cs == g.dealerHand.cards
        aces == Cardinality({k \in 1..Len(cs) : cs[k].rank = "A"})
        RECURSIVE Hard(_)
        Hard(n) == IF n = 0 THEN 0
                   ELSE Hard(n - 1) + (IF cs[n].rank = "A" THEN 0 ELSE getValue(cs[n]))
        hardScore == Hard(Len(cs))
        isSoft17 == aces > 0 /\ hardScore <= 6
    IN  IF score < 17 THEN TRUE
        ELSE IF score = 17 THEN isSoft17 /\ ~g.standOnSoft17
        ELSE FALSE

\* the cards of a sequence of hands, hand after hand
RECURSIVE HandCards(_)
HandCards(hands) ==
    IF hands = <<>> THEN <<>> ELSE Head(hands).cards \o HandCards(Tail(hands))

\* faulty variant of settleAllHands: the dealer's cards are not discarded
settleAllHands_playersOnly(g) ==
    LET RECURSIVE Discard(_, _)
        Discard(sh, n) ==
            IF n = 0 THEN sh
            ELSE addToDiscardPile(Discard(sh, n - 1), g.playerHands[n].cards)
    IN  {[g EXCEPT !.shoe = endRound(Discard(g.shoe, Len(g.playerHands))),
                   !.dealerHand = NewHand,
                   !.playerHands = <<NewHand>>,
                   !.currentHandIndex = 0]}

\* faulty variant of settleAllHands: the hands are not reset after discarding
settleAllHands_keepsHands(g) ==
    LET s1 == addToDiscardPile(g.shoe, g.dealerHand.cards)
        RECURSIVE Discard(_, _)
        Discard(sh, n) ==
            IF n = 0 THEN sh
            ELSE addToDiscardPile(Discard(sh, n - 1), g.playerHands[n].cards)
        s2 == Discard(s1, Len(g.playerHands))
    IN  {[g EXCEPT !.shoe = endRound(s2), !.currentHandIndex = 0]}

settleAllHands(g) ==
    LET s1 == addToDiscardPile(g.shoe, g.dealerHand.cards)
        RECURSIVE Discard(_, _)
        Discard(sh, n) ==
            IF n = 0 THEN sh
            ELSE addToDiscardPile(Discard(sh, n - 1), g.playerHands[n].cards)
        s2 == Discard(s1, Len(g.playerHands))
    IN  {[g EXCEPT !.shoe = endRound(s2),
                   !.dealerHand = NewHand,
                   !.playerHands = <<NewHand>>,
                   !.currentHandIndex = 0]}

(***************************************************************************)
(* BlackjackUI: every handler and timer callback maps the world w, the     *)
(* game g extended with the fields ui of the page and the pending          *)
(* timers, to the set of worlds it can leave.  Time is counted in units of *)
(* 100 ms.  Of the page, ui keeps what decides whether a click reaches a   *)
(* handler and what the handlers read back: selectedBet, the disabled      *)
(* state of the buttons, the "hidden" class of the three control groups    *)
(* and whether dealerArea has a child element.                             *)
(***************************************************************************)
\* handleHit: ANIMATION_DELAY = 700
ANIMATION_DELAY == 7
\* handleStand, executeDealerPlay: setTimeout(..., 800)
DealerDelay == 8
\* executeDealerPlay: setTimeout(() => this.determineGameOutcome(), 500)
OutcomeDelay == 5
\* showResult: the outer setTimeout(..., 2000)
ResultDelay == 20
\* showResult: the inner setTimeout(..., 500)
ClearDelay == 5
\* renderInitialCardsStaggered: delays = [0, 300, 600, 900]
StaggerDelays == <<0, 3, 6, 9>>
\* waitForTransition: timeout = 600
TransitionTimeout == 6

\* the page after the constructor of BlackjackUI, which ends in showBetAtBottom()
NewUI ==
    [selectedBet      |-> 0,
     placeBetDisabled |-> FALSE,
     betHidden        |-> FALSE,
     chipHidden       |-> FALSE,
     controlsHidden   |-> TRUE,
     canHit           |-> FALSE,
     canStand         |-> FALSE,
     canDouble        |-> FALSE,
     canSurrender     |-> FALSE,
     canSplit         |-> FALSE,
     dealerShown      |-> FALSE]

\* setTimeout(callback, delay): kind names the callback, idx, result and hand
\* are the values its closure captured
setTimeout(w, kind, delay, idx, result, hand) ==
    [w EXCEPT !.timers = Append(@, [at |-> delay, kind |-> kind, idx |-> idx,
                                    result |-> result, hand |-> hand])]

updateControls(w, canHit, canStand, canDouble, canSurrender, canSplit) ==
    [w EXCEPT !.ui.canHit = canHit, !.ui.canStand = canStand,
              !.ui.canDouble = canDouble, !.ui.canSurrender = canSurrender,
              !.ui.canSplit = canSplit]

computeAndUpdateControls(w) ==
    IF w.currentHandIndex + 1 \notin DOMAIN w.playerHands
    THEN updateControls(w, FALSE, FALSE, FALSE, FALSE, FALSE)
    ELSE LET hand == w.playerHands[w.currentHandIndex + 1]
             canHit == ~hand.hasStood /\ ~isBusted(hand)
             canStand == ~hand.hasStood
             canDouble == /\ Len(hand.cards) = 2
                          /\ ~hand.isSplit
                          /\ w.chips >= OrElse(OrElse(hand.originalBet, hand.bet), 0)
             canSplit == /\ Len(hand.cards) = 2
                         /\ getValue(hand.cards[1]) = getValue(hand.cards[2])
                         /\ w.chips >= OrElse(hand.bet, 0)
             canSurrender == w.allowSurrender /\ Len(hand.cards) = 2 /\ ~hand.isSplit
         IN  updateControls(w, canHit, canStand, canDouble, canSurrender, canSplit)

showActionControls(w) ==
    updateControls([w EXCEPT !.ui.betHidden = TRUE, !.ui.chipHidden = TRUE,
                             !.ui.controlsHidden = FALSE],
                   TRUE, TRUE, FALSE, FALSE, FALSE)

showBetAtBottom(w) ==
    updateControls([w EXCEPT !.ui.betHidden = FALSE, !.ui.chipHidden = FALSE,
                             !.ui.selectedBet = 0, !.ui.controlsHidden = TRUE],
                   FALSE, FALSE, FALSE, FALSE, FALSE)

clearTable(w) ==
    showBetAtBottom([w EXCEPT !.ui.dealerShown = FALSE,
                              !.ui.placeBetDisabled = FALSE])

\* showResult: of its effects only the timer is kept
showResult(w) == setTimeout(w, "hideResult", ResultDelay, 0, "", NewHand)

\* faulty variant of the payout: the base bet is taken from bet before
\* originalBet
Payout_betFirst(w, result, hand) ==
    LET inputBet == OrElse(w.ui.selectedBet, 0)
        base == OrElse(OrElse(OrElse(hand.bet, hand.originalBet), inputBet), 0)
        betSize == IF hand.doubled THEN base * 2 ELSE base
    IN  CASE result = "blackjack" -> (base * 5) \div 2
          [] result = "win"       -> betSize * 2
          [] result = "push"      -> betSize
          [] result = "surrender" -> base \div 2
          [] OTHER                -> 0

\* handleGameEnd, the amount added to chips.  base * 2.5 and base / 2 are
\* computed on integers: the amounts bet are even.
Payout(w, result, hand) ==
    LET inputBet == OrElse(w.ui.selectedBet, 0)
        base == OrElse(OrElse(OrElse(hand.originalBet, hand.bet), inputBet), 0)
        betSize == IF hand.doubled THEN base * 2 ELSE base
    IN  CASE result = "blackjack" -> (base * 5) \div 2
          [] result = "win"       -> betSize * 2
          [] result = "push"      -> betSize
          [] result = "surrender" -> base \div 2
          [] OTHER                -> 0

handleGameEnd(w, result, hand) ==
    LET w1 == [w EXCEPT !.chips = @ + Payout(w, result, hand)]
        w2 == showResult(w1)
    IN  updateControls(w2, FALSE, FALSE, FALSE, FALSE, FALSE)

\* the callback of showResult's outer timer
hideResult(w) == {setTimeout(w, "clearTable", ClearDelay, 0, "", NewHand)}

\* the callback of showResult's inner timer; an error of settleAllHands is
\* caught and logged
ClearAndSettle(w) == settleAllHands(clearTable(w))

\* the immediate-blackjack check of handleBetPlacement and of the last
\* staggered render; otherwise is what runs when there is no blackjack
BlackjackCheck(w, otherwise) ==
    LET playerHand == w.playerHands[1]
    IN  IF isBlackjack(playerHand)
        THEN IF isBlackjack(w.dealerHand)
             THEN handleGameEnd(w, "push", playerHand)
             ELSE handleGameEnd(w, "blackjack", playerHand)
        ELSE otherwise

handleChipClick(w, value) ==
    IF w.ui.selectedBet = value
    THEN {[w EXCEPT !.chips = @ + value, !.ui.selectedBet = 0]}
    ELSE LET w1 == IF w.ui.selectedBet > 0
                   THEN [w EXCEPT !.chips = @ + w.ui.selectedBet,
                                  !.ui.selectedBet = 0]
                   ELSE w
         IN  IF w1.chips >= value
             THEN {[w1 EXCEPT !.chips = @ - value, !.ui.selectedBet = value]}
             ELSE {w1}

\* handleBetPlacement: the frame callback and the two transition waits are
\* pending when the blackjack check on the hand of before the deal runs.  The
\* waits end after TransitionTimeout at the latest.
handleBetPlacement(w) ==
    LET betAmount == OrElse(w.ui.selectedBet, 0)
    IN  IF betAmount > 0
        THEN {LET w2 == setTimeout(w1, "showActionControls", 0, 0, "", NewHand)
                  w3 == setTimeout(w2, "dealInitialCards", TransitionTimeout,
                                   0, "", NewHand)
              IN  BlackjackCheck(w3, w3)
              : w1 \in placeBet([w EXCEPT !.ui.placeBetDisabled = TRUE], betAmount)}
        ELSE {w}

renderInitialCardsStaggered(w) ==
    LET RECURSIVE Schedule(_, _)
        Schedule(x, idx) ==
            IF idx > Len(StaggerDelays) THEN x
            ELSE Schedule(setTimeout(x, "renderCard", StaggerDelays[idx], idx,
                                     "", NewHand),
                          idx + 1)
    IN  Schedule([w EXCEPT !.ui.dealerShown = FALSE], 1)

\* the callback of the Promise.all of handleBetPlacement
DealAndRender(w) ==
    {renderInitialCardsStaggered(w1) : w1 \in dealInitialCards(w)}

\* the callback of the idx-th staggered timer: items 2 and 4 are rendered
\* into dealerArea, the last one runs the blackjack check
RenderStaggered(w, idx) ==
    LET w1 == IF idx \in {2, 4} THEN [w EXCEPT !.ui.dealerShown = TRUE] ELSE w
    IN  IF idx = Len(StaggerDelays)
        THEN {BlackjackCheck(w1, computeAndUpdateControls(w1))}
        ELSE {w1}

handleHit(w) ==
    {LET playerHand == w1.playerHands[w1.currentHandIndex + 1]
     IN  IF isBusted(playerHand)
         THEN setTimeout(w1, "handleGameEnd", ANIMATION_DELAY, 0, "busted",
                         playerHand)
         ELSE computeAndUpdateControls(w1)
     : w1 \in hit(w, w.currentHandIndex)}

\* handleStand: revealDealerCard raises when dealerArea has no child or the
\* dealer hand no card; the error is caught and the timer is not set
handleStand(w) ==
    {LET w2 == updateControls(w1, FALSE, FALSE, FALSE, FALSE, FALSE)
     IN  IF ~w2.ui.dealerShown \/ w2.dealerHand.cards = <<>>
         THEN [w2 EXCEPT !.threw = TRUE]
         ELSE setTimeout(w2, "executeDealerPlay", DealerDelay, 0, "", NewHand)
     : w1 \in stand(w, w.currentHandIndex)}

executeDealerPlay(w) ==
    IF shouldDealerHit(w)
    THEN {setTimeout([w1 EXCEPT !.ui.dealerShown = TRUE], "executeDealerPlay",
                     DealerDelay, 0, "", NewHand)
          : w1 \in dealerPlay(w)}
    ELSE {setTimeout(w, "determineGameOutcome", OutcomeDelay, 0, "", NewHand)}

handleDouble(w) ==
    LET hand == w.playerHands[w.currentHandIndex + 1]
        currentBet == OrElse(OrElse(hand.originalBet, hand.bet), 0)
    IN  IF w.chips < currentBet THEN {w}
        ELSE UNION {IF w1.threw THEN {w1}
                    ELSE handleStand(computeAndUpdateControls(w1))
                    : w1 \in double([w EXCEPT !.chips = @ - currentBet],
                                    w.currentHandIndex)}

handleSplit(w) ==
    LET currentBet == w.playerHands[w.currentHandIndex + 1].bet
    IN  IF w.chips >= currentBet
        THEN {IF w1.threw THEN w1
              ELSE computeAndUpdateControls([w1 EXCEPT !.chips = @ - currentBet])
              : w1 \in split(w, w.currentHandIndex)}
        ELSE {w}

handleSurrender(w) ==
    {IF w1.threw THEN w1
     ELSE handleGameEnd(w1, "surrender", w1.playerHands[w1.currentHandIndex + 1])
     : w1 \in surrender(w, w.currentHandIndex)}

determineGameOutcome(w) ==
    LET playerHand == w.playerHands[w.currentHandIndex + 1]
        dealerScore == getScore(w.dealerHand)
        playerScore == getScore(playerHand)
        result ==
            IF isBusted(playerHand) THEN "busted"
            ELSE IF isBusted(w.dealerHand) THEN "win"
            ELSE IF isBlackjack(playerHand) /\ ~isBlackjack(w.dealerHand)
            THEN "blackjack"
            ELSE IF isBlackjack(w.dealerHand) /\ ~isBlackjack(playerHand)
            THEN "lose"
            ELSE IF playerScore > dealerScore THEN "win"
            ELSE IF dealerScore > playerScore THEN "lose"
            ELSE "push"
    IN  {handleGameEnd(w, result, playerHand)}

(***************************************************************************)
(* State                                                                   *)
(***************************************************************************)
VARIABLES
    shoe,              \* Blackjack.shoe (or the bare Shoe under test)
    nextId,            \* Card._nextId
    dealerHand,        \* Blackjack.dealerHand
    playerHands,       \* Blackjack.playerHands
    currentHandIndex,  \* Blackjack.currentHandIndex
    standOnSoft17,     \* Blackjack.standOnSoft17
    allowSurrender,    \* Blackjack.allowSurrender
    chips,             \* Blackjack.chips
    notices,           \* how often the end-of-shoe notification has run
    lastOp,            \* the last operation called: [name, handIndex]
    returned,          \* the results of the deal() calls of the last operation
    threw,             \* whether the last operation raised an error
    ops,               \* how many operations have been called
    held,              \* cards the caller of a bare Shoe has been dealt and keeps
    ended,             \* the handIndex of every endHand call of the last operation
    retval,            \* what the last operation returned: <<v>>, <<>> for undefined
    ui,                \* the fields of the page BlackjackUI reads and writes
    timers             \* the pending setTimeout and frame callbacks, oldest first

engine == <<shoe, nextId, dealerHand, playerHands, currentHandIndex,
            standOnSoft17, allowSurrender, chips>>

vars == <<shoe, nextId, dealerHand, playerHands, currentHandIndex,
          standOnSoft17, allowSurrender, chips, notices, lastOp, returned,
          threw, ops, held, ended, retval, ui, timers>>

\* default of the constructor's startingChips parameter
startingChips == 1000

\* amounts passed to placeBet
BetAmounts == {10}

\* the engine's state as the record the operations work on
Game ==
    [shoe             |-> shoe,
     nextId           |-> nextId,
     dealerHand       |-> dealerHand,
     playerHands      |-> playerHands,
     currentHandIndex |-> currentHandIndex,
     standOnSoft17    |-> standOnSoft17,
     allowSurrender   |-> allowSurrender,
     chips            |-> chips,
     notices          |-> notices,
     returned         |-> <<>>,
     threw            |-> FALSE,
     ended            |-> <<>>,
     value            |-> <<>>]

Op(name, handIndex) == [name |-> name, handIndex |-> handIndex]

NoIndex == -1

\* the operation named op left game g
Becomes(g, op) ==
    /\ ops < MaxOps
    /\ ops' = ops + 1
    /\ shoe' = g.shoe
    /\ nextId' = g.nextId
    /\ dealerHand' = g.dealerHand
    /\ playerHands' = g.playerHands
    /\ currentHandIndex' = g.currentHandIndex
    /\ chips' = g.chips
    /\ notices' = g.notices
    /\ returned' = g.returned
    /\ threw' = g.threw
    /\ ended' = g.ended
    /\ retval' = g.value
    /\ lastOp' = op
    /\ UNCHANGED <<standOnSoft17, allowSurrender, held, ui, timers>>

\* new Blackjack(numberOfDecks, standOnSoft17, allowSurrender)
Init ==
    /\ \E d \in GameDecks :
         /\ shoe = NewShoe(d).shoe
         /\ nextId = NewShoe(d).nextId
    /\ standOnSoft17 = TRUE
    /\ allowSurrender \in BOOLEAN
    /\ dealerHand = NewHand
    /\ playerHands = <<NewHand>>
    /\ currentHandIndex = 0
    /\ chips = startingChips
    /\ notices = 0
    /\ lastOp = Op("new", NoIndex)
    /\ returned = <<>>
    /\ threw = FALSE
    /\ ops = 0
    /\ held = {}
    /\ ended = <<>>
    /\ retval = <<>>
    /\ ui = NewUI
    /\ timers = <<>>

HandIndices == 0..(Len(playerHands) - 1)

DealInitialCards ==
    \E g \in dealInitialCards(Game) : Becomes(g, Op("dealInitialCards", NoIndex))

PlaceBet ==
    \E amount \in BetAmounts :
        \E g \in placeBet(Game, amount) : Becomes(g, Op("placeBet", NoIndex))

Hit ==
    \E i \in HandIndices : \E g \in hit(Game, i) : Becomes(g, Op("hit", i))

Stand ==
    \E i \in HandIndices : \E g \in stand(Game, i) : Becomes(g, Op("stand", i))

Surrender ==
    \E i \in HandIndices : \E g \in surrender(Game, i) : Becomes(g, Op("surrender", i))

Double ==
    \E i \in HandIndices : \E g \in double(Game, i) : Becomes(g, Op("double", i))

Split ==
    \E i \in HandIndices : \E g \in split(Game, i) : Becomes(g, Op("split", i))

DealerPlay ==
    \E g \in dealerPlay(Game) : Becomes(g, Op("dealerPlay", NoIndex))

\* shouldDealerHit() called on the game as it stands
ShouldDealerHitCall ==
    Becomes([Game EXCEPT !.value = <<shouldDealerHit(Game)>>],
            Op("shouldDealerHit", NoIndex))

\* lastOp.again says whether the call before was settleAllHands() too
SettleAllHands ==
    \E g \in settleAllHands(Game) :
        Becomes(g, [name |-> "settleAllHands", handIndex |-> NoIndex,
                    again |-> lastOp.name = "settleAllHands"])

Next ==
    \/ DealInitialCards
    \/ PlaceBet
    \/ Hit
    \/ Stand
    \/ Surrender
    \/ Double
    \/ Split
    \/ DealerPlay
    \/ ShouldDealerHitCall
    \/ SettleAllHands

Spec == Init /\ [][Next]_vars

(***************************************************************************)
(* The page: clicks of the user on the controls that are enabled and       *)
(* shown, the callbacks of the pending timers, and the passing of time.    *)
(***************************************************************************)
\* the data-value of the chips of the page
ChipValues == {10}

\* the game, page and timers as the record the handlers work on
World == Game @@ [ui |-> ui, timers |-> timers]

\* handler op left world w; clicked says whether a click started it
Leaves(w, op, clicked) ==
    /\ shoe' = w.shoe
    /\ nextId' = w.nextId
    /\ dealerHand' = w.dealerHand
    /\ playerHands' = w.playerHands
    /\ currentHandIndex' = w.currentHandIndex
    /\ chips' = w.chips
    /\ ui' = w.ui
    /\ timers' = w.timers
    /\ notices' = w.notices
    /\ returned' = w.returned
    /\ threw' = w.threw
    /\ ended' = w.ended
    /\ retval' = <<>>
    /\ lastOp' = Op(op, NoIndex)
    /\ ops' = IF clicked THEN ops + 1 ELSE ops
    /\ UNCHANGED <<standOnSoft17, allowSurrender, held>>

\* a click on a control can be made
CanClick == ops < MaxClicks

ClickChip ==
    /\ CanClick
    /\ ~ui.chipHidden
    /\ \E value \in ChipValues :
         \E w \in handleChipClick(World, value) : Leaves(w, "handleChipClick", TRUE)

ClickPlaceBet ==
    /\ CanClick
    /\ ~ui.placeBetDisabled
    /\ ~ui.betHidden
    /\ \E w \in handleBetPlacement(World) : Leaves(w, "handleBetPlacement", TRUE)

ClickHit ==
    /\ CanClick
    /\ ui.canHit
    /\ ~ui.controlsHidden
    /\ \E w \in handleHit(World) : Leaves(w, "handleHit", TRUE)

ClickStand ==
    /\ CanClick
    /\ ui.canStand
    /\ ~ui.controlsHidden
    /\ \E w \in handleStand(World) : Leaves(w, "handleStand", TRUE)

ClickDouble ==
    /\ CanClick
    /\ ui.canDouble
    /\ ~ui.controlsHidden
    /\ \E w \in handleDouble(World) : Leaves(w, "handleDouble", TRUE)

ClickSplit ==
    /\ CanClick
    /\ ui.canSplit
    /\ ~ui.controlsHidden
    /\ \E w \in handleSplit(World) : Leaves(w, "handleSplit", TRUE)

ClickSurrender ==
    /\ CanClick
    /\ ui.canSurrender
    /\ ~ui.controlsHidden
    /\ \E w \in handleSurrender(World) : Leaves(w, "handleSurrender", TRUE)

\* the timers that are due; of these the one set first runs first
Due == {k \in 1..Len(timers) : timers[k].at = 0}

NextDue == CHOOSE k \in Due : \A j \in Due : k <= j

\* the world in which the callback of the timer that runs is called
Fired ==
    [World EXCEPT !.timers = SubSeq(@, 1, NextDue - 1)
                                 \o SubSeq(@, NextDue + 1, Len(@))]

Runs(kind) == Due # {} /\ timers[NextDue].kind = kind

FrameShowActionControls ==
    /\ Runs("showActionControls")
    /\ Leaves(showActionControls(Fired), "showActionControls", FALSE)

TransitionsEnd ==
    /\ Runs("dealInitialCards")
    /\ \E w \in DealAndRender(Fired) : Leaves(w, "dealInitialCards", FALSE)

TimeoutRenderCard ==
    /\ Runs("renderCard")
    /\ \E w \in RenderStaggered(Fired, timers[NextDue].idx) :
         Leaves(w, "renderCard", FALSE)

TimeoutBusted ==
    /\ Runs("handleGameEnd")
    /\ Leaves(handleGameEnd(Fired, timers[NextDue].result, timers[NextDue].hand),
              "handleGameEnd", FALSE)

TimeoutExecuteDealerPlay ==
    /\ Runs("executeDealerPlay")
    /\ \E w \in executeDealerPlay(Fired) : Leaves(w, "executeDealerPlay", FALSE)

TimeoutDetermineGameOutcome ==
    /\ Runs("determineGameOutcome")
    /\ \E w \in determineGameOutcome(Fired) :
         Leaves(w, "determineGameOutcome", FALSE)

TimeoutHideResult ==
    /\ Runs("hideResult")
    /\ \E w \in hideResult(Fired) : Leaves(w, "hideResult", FALSE)

TimeoutClearTable ==
    /\ Runs("clearTable")
    /\ \E w \in ClearAndSettle(Fired) : Leaves(w, "settleAllHands", FALSE)

\* 100 ms pass: no timer is due
Tick ==
    /\ timers # <<>>
    /\ Due = {}
    /\ timers' = [k \in 1..Len(timers) |-> [timers[k] EXCEPT !.at = @ - 1]]
    /\ UNCHANGED <<engine, ui, notices, lastOp, returned, threw, ops, held,
                   ended, retval>>

UINext ==
    \/ ClickChip
    \/ ClickPlaceBet
    \/ ClickHit
    \/ ClickStand
    \/ ClickDouble
    \/ ClickSplit
    \/ ClickSurrender
    \/ FrameShowActionControls
    \/ TransitionsEnd
    \/ TimeoutRenderCard
    \/ TimeoutBusted
    \/ TimeoutExecuteDealerPlay
    \/ TimeoutDetermineGameOutcome
    \/ TimeoutHideResult
    \/ TimeoutClearTable
    \/ Tick

UISpec == Init /\ [][UINext]_vars

(***************************************************************************)
(* A bare Shoe driven through deal, addToDiscardPile, startRound and       *)
(* endRound by a caller that keeps the cards it is dealt (held) until it   *)
(* passes them to addToDiscardPile.                                        *)
(***************************************************************************)
Ids(cs) == {c.id : c \in cs}

\* the cards of a set as an array, lowest id first
RECURSIVE AsArray(_)
AsArray(cs) ==
    IF cs = {} THEN <<>>
    ELSE LET c == CHOOSE x \in cs : \A y \in cs : x.id <= y.id
         IN  <<c>> \o AsArray(cs \ {c})

ShoeInit ==
    /\ \E d \in ShoeDecks :
         /\ shoe = NewShoe(d).shoe
         /\ nextId = NewShoe(d).nextId
    /\ standOnSoft17 = TRUE
    /\ allowSurrender = TRUE
    /\ dealerHand = NewHand
    /\ playerHands = <<NewHand>>
    /\ currentHandIndex = 0
    /\ chips = startingChips
    /\ notices = 0
    /\ lastOp = Op("new", NoIndex)
    /\ returned = <<>>
    /\ threw = FALSE
    /\ ops = 0
    /\ held = {}
    /\ ended = <<>>
    /\ retval = <<>>
    /\ ui = NewUI
    /\ timers = <<>>

ShoeFrame ==
    UNCHANGED <<dealerHand, playerHands, currentHandIndex, standOnSoft17,
                allowSurrender, chips, threw, ops, ended, ui, timers>>

\* deal(); lastOp.entry records what the call found on entry: cards, or
\* no cards and a discardPile, or both arrays empty; lastOp.repeat whether
\* the round had dealt the returned card's id before the call; lastOp.search
\* how the search loop of the call ended
ShoeDeal ==
    \E r \in deal(shoe, nextId) :
        /\ r.nextId <= MaxCards + 1
        /\ shoe' = r.shoe
        /\ nextId' = r.nextId
        /\ notices' = notices + r.fired
        /\ returned' = <<r.card>>
        /\ retval' = r.card
        /\ held' = held \cup {r.card[k] : k \in 1..Len(r.card)}
        /\ lastOp' = [name |-> "deal", handIndex |-> NoIndex,
                       entry |-> IF BagCardinality(shoe.cards) > 0 THEN "cards"
                                 ELSE IF BagCardinality(shoe.discardPile) > 0
                                 THEN "discardPile"
                                 ELSE "empty",
                       repeat |-> /\ shoe.tracking
                                  /\ \E k \in 1..Len(r.card) :
                                         r.card[k].id \in shoe.currentRoundDealt,
                       search |-> r.search]
        /\ ShoeFrame

\* addToDiscardPile(card) with one held card, addToDiscardPile([...]) with
\* all of them
ShoeAddToDiscardPile ==
    \E cs \in {{c} : c \in held} \cup {held} :
        /\ cs # {}
        /\ shoe' = addToDiscardPile(shoe, AsArray(cs))
        /\ held' = held \ cs
        /\ returned' = <<>>
        /\ lastOp' = Op("addToDiscardPile", NoIndex)
        /\ retval' = <<>>
        /\ UNCHANGED <<nextId, notices>>
        /\ ShoeFrame

ShoeStartRound ==
    /\ shoe' = startRound(shoe)
    /\ returned' = <<>>
    /\ lastOp' = Op("startRound", NoIndex)
    /\ retval' = <<>>
    /\ UNCHANGED <<nextId, notices, held>>
    /\ ShoeFrame

ShoeEndRound ==
    /\ shoe' = endRound(shoe)
    /\ returned' = <<>>
    /\ lastOp' = Op("endRound", NoIndex)
    /\ retval' = <<>>
    /\ UNCHANGED <<nextId, notices, held>>
    /\ ShoeFrame

ShoeNext ==
    \/ ShoeDeal
    \/ ShoeAddToDiscardPile
    \/ ShoeStartRound
    \/ ShoeEndRound

ShoeSpec == ShoeInit /\ [][ShoeNext]_vars

(***************************************************************************)
(* A Hand under getScore, isBusted, isBlackjack and shouldDealerHit: the   *)
(* hand is the dealer hand of a game, drawn from the thirteen ranks.       *)
(***************************************************************************)
\* the ranks other than the Ace
NonAces == {ranks[k] : k \in 2..Len(ranks)}

\* the arrays of at most n cards other than Aces, by rank
NonAceRuns(n) == UNION {[1..m -> NonAces] : m \in 0..n}

\* n Aces, by rank
AceRun(n) == [k \in 1..n |-> "A"]

\* the cards of the given ranks, as new Card objects of one suit
CardsOf(rs) == [k \in 1..Len(rs) |-> Card(suits[1], rs[k], k)]

HandInit ==
    /\ \E d \in GameDecks :
         /\ shoe = NewShoe(d).shoe
         /\ nextId = NewShoe(d).nextId
    /\ standOnSoft17 \in BOOLEAN
    /\ allowSurrender = TRUE
    /\ \E a \in 0..MaxAces, b \in 0..MaxAces, others \in NonAceRuns(MaxOthers) :
         /\ a + b <= MaxAces
         /\ dealerHand =
                [NewHand EXCEPT !.cards = CardsOf(AceRun(a) \o others \o AceRun(b))]
    /\ playerHands = <<NewHand>>
    /\ currentHandIndex = 0
    /\ chips = startingChips
    /\ notices = 0
    /\ lastOp = Op("new", NoIndex)
    /\ returned = <<>>
    /\ threw = FALSE
    /\ ops = 0
    /\ held = {}
    /\ ended = <<>>
    /\ retval = <<>>
    /\ ui = NewUI
    /\ timers = <<>>

\* a call that only returns a value
Returns(name, v) ==
    /\ lastOp' = Op(name, NoIndex)
    /\ retval' = <<v>>
    /\ UNCHANGED <<engine, notices, returned, threw, ops, held, ended, ui, timers>>

GetScore == Returns("getScore", getScore(dealerHand))

IsBusted == Returns("isBusted", isBusted(dealerHand))

IsBlackjack == Returns("isBlackjack", isBlackjack(dealerHand))

ShouldDealerHit == Returns("shouldDealerHit", shouldDealerHit(Game))

HandNext ==
    \/ GetScore
    \/ IsBusted
    \/ IsBlackjack
    \/ ShouldDealerHit

HandSpec == HandInit /\ [][HandNext]_vars

(***************************************************************************)
(* The dealer's turn as the driver runs it: dealerPlay() is called again   *)
(* and again while shouldDealerHit() is true.  The dealer hand the turn    *)
(* starts from is put together by addCard calls with cards of the thirteen *)
(* ranks, in the order of ranks (the score does not depend on the order of *)
(* the cards); a round is open on the shoe.                                *)
(***************************************************************************)
DealerInit ==
    /\ \E d \in GameDecks :
         /\ shoe = startRound(NewShoe(d).shoe)
         /\ nextId = NewShoe(d).nextId
    /\ standOnSoft17 \in BOOLEAN
    /\ allowSurrender = TRUE
    /\ dealerHand = NewHand
    /\ playerHands = <<NewHand>>
    /\ currentHandIndex = 0
    /\ chips = startingChips
    /\ notices = 0
    /\ lastOp = Op("new", NoIndex)
    /\ returned = <<>>
    /\ threw = FALSE
    /\ ops = 0
    /\ held = {}
    /\ ended = <<>>
    /\ retval = <<>>
    /\ ui = NewUI
    /\ timers = <<>>

\* dealerHand.addCard(new Card(suit, rank)) before the turn starts
DealerAddCard ==
    /\ lastOp.name \in {"new", "addCard"}
    /\ \E k \in 1..Len(ranks) :
         LET cs == dealerHand.cards
             aces == Cardinality({j \in 1..Len(cs) : cs[j].rank = "A"})
         IN  /\ \A j \in 1..Len(cs) : \E i \in 1..k : ranks[i] = cs[j].rank
             /\ IF ranks[k] = "A"
                THEN aces < MaxAces
                ELSE Len(cs) - aces < MaxOthers
             /\ dealerHand' = addCard(dealerHand, <<Card(suits[1], ranks[k], nextId)>>)
             /\ nextId' = nextId + 1
    /\ lastOp' = Op("addCard", NoIndex)
    /\ UNCHANGED <<shoe, playerHands, currentHandIndex, standOnSoft17,
                   allowSurrender, chips, notices, returned, threw, ops, held,
                   ended, retval, ui, timers>>

\* the guard was true: one dealerPlay(); ops counts the calls of the turn
DealerDraws ==
    /\ lastOp.name # "shouldDealerHit"
    /\ shouldDealerHit(Game)
    /\ \E g \in dealerPlay(Game) :
         /\ shoe' = g.shoe
         /\ nextId' = g.nextId
         /\ dealerHand' = g.dealerHand
         /\ playerHands' = g.playerHands
         /\ currentHandIndex' = g.currentHandIndex
         /\ chips' = g.chips
         /\ notices' = g.notices
         /\ returned' = g.returned
         /\ threw' = g.threw
         /\ ended' = g.ended
         /\ retval' = g.value
         /\ lastOp' = Op("dealerPlay", NoIndex)
         /\ ops' = ops + 1
         /\ UNCHANGED <<standOnSoft17, allowSurrender, held, ui, timers>>

\* the guard was false: the turn is over
DealerStands ==
    /\ lastOp.name # "shouldDealerHit"
    /\ ~shouldDealerHit(Game)
    /\ lastOp' = Op("shouldDealerHit", NoIndex)
    /\ retval' = <<FALSE>>
    /\ returned' = <<>>
    /\ UNCHANGED <<engine, notices, threw, ops, held, ended, ui, timers>>

DealerNext ==
    \/ DealerAddCard
    \/ DealerStands
    \/ DealerDraws

\* the driver does not stop calling while the guard is true
DealerSpec == DealerInit /\ [][DealerNext]_vars /\ WF_vars(DealerNext)

(***************************************************************************)
(* handleGameEnd under every result, for hands and a selected bet drawn    *)
(* from the amounts the page can have set.                                 *)
(***************************************************************************)
\* the amounts of bet, originalBet and selectedBet
Amounts == {0, 10, 20}

\* the result strings handleGameEnd is called with
Results == {"blackjack", "win", "push", "surrender", "lose", "busted"}

PayoutInit ==
    /\ \E d \in GameDecks :
         /\ shoe = NewShoe(d).shoe
         /\ nextId = NewShoe(d).nextId
    /\ standOnSoft17 = TRUE
    /\ allowSurrender = TRUE
    /\ dealerHand = NewHand
    /\ \E originalBet \in Amounts \cup {Undefined}, bet \in Amounts,
          doubled \in BOOLEAN :
         playerHands = <<[NewHand EXCEPT !.originalBet = originalBet,
                                         !.bet = bet,
                                         !.doubled = doubled]>>
    /\ currentHandIndex = 0
    /\ chips = startingChips
    /\ notices = 0
    /\ lastOp = Op("new", NoIndex)
    /\ returned = <<>>
    /\ threw = FALSE
    /\ ops = 0
    /\ held = {}
    /\ ended = <<>>
    /\ retval = <<>>
    /\ \E selectedBet \in Amounts : ui = [NewUI EXCEPT !.selectedBet = selectedBet]
    /\ timers = <<>>

\* this.handleGameEnd(result, hand) with the current hand
HandleGameEnd ==
    \E result \in Results :
        LET w == handleGameEnd(World, result, playerHands[currentHandIndex + 1])
        IN  /\ ops < MaxResults
            /\ ops' = ops + 1
            /\ chips' = w.chips
            /\ ui' = w.ui
            /\ timers' = w.timers
            /\ lastOp' = [name |-> "handleGameEnd", handIndex |-> NoIndex,
                           result |-> result]
            /\ UNCHANGED <<shoe, nextId, dealerHand, playerHands, currentHandIndex,
                           standOnSoft17, allowSurrender, notices, returned, threw,
                           held, ended, retval>>

PayoutNext == HandleGameEnd

PayoutSpec == PayoutInit /\ [][PayoutNext]_vars

(***************************************************************************)
(* Properties                                                              *)
(***************************************************************************)
\* the cards held by the dealer hand and the player hands, as an array
InHands == HandCards(<<dealerHand>> \o playerHands)

\* every card of the shoe, of the discard pile and of the hands
InPlay == shoe.cards (+) shoe.discardPile (+) SeqToBag(InHands)

\* the cards that occur in the shoe, in the discard pile or in a hand
PlaySet ==
    BagToSet(shoe.cards) \cup BagToSet(shoe.discardPile)
        \cup {InHands[k] : k \in 1..Len(InHands)}

\* cards constructed for one shoe
ShoeSize == shoe.numberOfDecks * DeckSize

\* C1: after any sequence of controller operations, the cards in shoe.cards,
\* in shoe.discardPile and in the dealer and player hands number exactly
\* (cards per deck) * numberOfDecks.
C1_CardCount ==
    BagCardinality(shoe.cards) + BagCardinality(shoe.discardPile) + Len(InHands)
        = ShoeSize

\* C2: no card id occurs twice across shoe.cards, shoe.discardPile, the dealer
\* hand and the player hands (there are as many ids as cards), and every
\* card constructed by an operation has an id greater than every id
\* constructed before it.
C2_NoIdTwice ==
    Cardinality({c.id : c \in PlaySet})
        = BagCardinality(shoe.cards) + BagCardinality(shoe.discardPile)
            + Len(InHands)

C2_NewIdsGreater ==
    /\ nextId' >= nextId
    /\ {c \in PlaySet' : c.id < nextId} \subseteq PlaySet
    /\ \A c \in PlaySet' : c.id < nextId'

C2_UniqueIds == []C2_NoIdTwice /\ [][C2_NewIdsGreater]_vars

\* a card built by a rebuild of the shoe is held by a hand next to cards of
\* the first build
C2_Witness ==
    /\ \E k \in 1..Len(InHands) : InHands[k].id > ShoeSize
    /\ \E k \in 1..Len(InHands) : InHands[k].id <= ShoeSize
    /\ lastOp.name = "split"

\* C3: every deal() call on a shoe of one or more decks returns a card, never
\* undefined, whatever deal, addToDiscardPile, startRound and endRound calls
\* came before.
C3_DealReturnsCard ==
    lastOp.name = "deal" => Len(returned) = 1 /\ Len(returned[1]) = 1

\* a deal() call that found cards empty returned a card of the refilled
\* discard pile while a round was open
C3_Witness ==
    /\ lastOp.name = "deal"
    /\ Len(returned[1]) = 1
    /\ shoe.tracking
    /\ notices > 0
    /\ BagCardinality(shoe.cards) = 0

\* C4: a deal() call that begins with exactly one card left in cards, the
\* end-of-shoe notification not fired yet, fires the notification.
C4_LastCardNotifies ==
    [][(/\ lastOp'.name = "deal"
        /\ BagCardinality(shoe.cards) = 1
        /\ ~shoe.endAlerted)
       => notices' = notices + 1]_vars

\* C5: over any sequence of deal, addToDiscardPile, startRound and endRound
\* calls on one Shoe, the end-of-shoe notification fires at most once.
C5_AtMostOnce == notices <= 1

\* C5 as amended: the notification fires at most once per build of the shoe:
\* a call fires it at most once and only if it has not fired since the last
\* initializeShoe, and only initializeShoe makes it ready to fire again.
C5_OncePerBuild ==
    [][/\ notices' > notices =>
            /\ notices' = notices + 1
            /\ shoe'.endAlerted
            /\ ~shoe.endAlerted \/ nextId' > nextId
       /\ (shoe.endAlerted /\ ~shoe'.endAlerted) => nextId' > nextId]_vars

\* the notification fired for the first build and again for the second
C5_Witness == notices = 2 /\ nextId > ShoeSize + 1

\* C6: with a round open and no card dealt in it returned to the shoe yet,
\* deal() returns a card whose id has not been returned in this round and is
\* not the id of a card the caller holds.
C6_NoRepeatInRound ==
    [][(/\ lastOp'.name = "deal"
        /\ shoe.tracking
        /\ shoe.currentRoundDealt \subseteq Ids(held))
       => \A k \in 1..Len(returned'[1]) :
              /\ returned'[1][k].id \notin shoe.currentRoundDealt
              /\ returned'[1][k].id \notin Ids(held)]_vars

\* a round has dealt every card of the first build and one of the next
C6_Witness ==
    /\ lastOp.name = "deal"
    /\ shoe.tracking
    /\ shoe.currentRoundDealt = 1..(ShoeSize + 1)
    /\ shoe.currentRoundDealt \subseteq Ids(held)

\* a hand that takes no further action in its round
Terminal(hand) ==
    hand.hasStood \/ isBusted(hand) \/ hand.hasSurrendered \/ hand.doubled

\* C7: in an open round, a hit, double, split or surrender call leaves the cards, bet and flags
\* of every player hand that was terminal before the call as they were.
C7_TerminalHandsFrozen ==
    [][(shoe.tracking /\ lastOp'.name \in {"hit", "double", "split", "surrender"}) =>
          \A k \in 1..Len(playerHands) :
              Terminal(playerHands[k]) =>
                  LET at == IF /\ lastOp'.name = "split"
                               /\ ~threw'
                               /\ k - 1 > lastOp'.handIndex
                            THEN k + 1 ELSE k
                  IN  at <= Len(playerHands') /\ playerHands'[at] = playerHands[k]]_vars

\* C8: the dealer receives a card from dealerPlay only when every player
\* hand of the round is terminal; in particular, once the first of two split
\* hands has stood and the turn is with the second, the dealer does not draw
\* while the second hand is still open.
C8_DealerAfterPlayers ==
    [][(/\ lastOp'.name = "executeDealerPlay"
        /\ Len(dealerHand'.cards) > Len(dealerHand.cards)
        /\ Len(playerHands) = 2
        /\ playerHands[1].isSplit /\ playerHands[2].isSplit
        /\ playerHands[1].hasStood
        /\ currentHandIndex = 1)
       => \A k \in 1..Len(playerHands) : Terminal(playerHands[k])]_vars

\* C9: currentHandIndex indexes a player hand, there is at least one player
\* hand, playerHands grows only by a split and then by one, and shrinks only
\* to one hand and only by dealInitialCards or settleAllHands.
C9_IndexInRange ==
    /\ Len(playerHands) >= 1
    /\ 0 <= currentHandIndex
    /\ currentHandIndex < Len(playerHands)

C9_LengthChanges ==
    /\ Len(playerHands') > Len(playerHands) =>
           lastOp'.name = "split" /\ Len(playerHands') = Len(playerHands) + 1
    /\ Len(playerHands') < Len(playerHands) =>
           /\ lastOp'.name \in {"dealInitialCards", "settleAllHands"}
           /\ Len(playerHands') = 1
    /\ lastOp'.name \in {"dealInitialCards", "settleAllHands"} =>
           Len(playerHands') = 1 /\ currentHandIndex' = 0

C9_HandIndexValid == []C9_IndexInRange /\ [][C9_LengthChanges]_vars

\* the turn has moved to the hand a split created
C9_Witness == Len(playerHands) = 2 /\ currentHandIndex = 1

\* C10: a surrender, double or split call that raises an error leaves the
\* shoe, the round's dealt set, every hand, playerHands and currentHandIndex
\* as they were.
C10_RejectedUnchanged ==
    [][threw' =>
          /\ lastOp'.name \in {"surrender", "double", "split"}
          /\ UNCHANGED <<shoe, nextId, dealerHand, playerHands, currentHandIndex,
                         notices>>
          /\ returned' = <<>>]_vars

\* a double was rejected on a hand of three cards
C10_Witness ==
    /\ threw
    /\ lastOp.name = "double"
    /\ Len(playerHands[lastOp.handIndex + 1].cards) = 3


\* the blackjack value of a rank: J, Q and K count 10, the Ace 11
RankValue(rank) ==
    CASE rank \in {"J", "Q", "K"} -> 10
      [] rank = "A" -> 11
      [] rank = "10" -> 10
      [] OTHER -> CHOOSE n \in 2..9 : ranks[n] = rank

\* C11: split(i) succeeds exactly when hand i holds exactly 2 cards of equal
\* blackjack value.  On success playerHands grows by one, the new hand sits at
\* index i+1 with the source's former second card and the first card dealt,
\* the source keeps its first card and gets the second card dealt, both are
\* marked isSplit, the new hand carries the source's bet and bet basis, the
\* other hands keep their order and contents, currentHandIndex is unchanged.
C11_Split ==
    [][lastOp'.name = "split" =>
          LET i == lastOp'.handIndex + 1
              hand == playerHands[i]
              splittable ==
                  /\ Len(hand.cards) = 2
                  /\ RankValue(hand.cards[1].rank) = RankValue(hand.cards[2].rank)
          IN  /\ threw' <=> ~splittable
              /\ splittable =>
                    /\ Len(playerHands') = Len(playerHands) + 1
                    /\ Len(returned') = 2
                    /\ playerHands'[i + 1].cards = <<hand.cards[2]>> \o returned'[1]
                    /\ Len(playerHands'[i + 1].cards) = 2
                    /\ playerHands'[i].cards = <<hand.cards[1]>> \o returned'[2]
                    /\ Len(playerHands'[i].cards) = 2
                    /\ playerHands'[i].isSplit /\ playerHands'[i + 1].isSplit
                    /\ playerHands'[i + 1].bet = hand.bet
                    /\ playerHands'[i + 1].originalBet
                           = (IF hand.originalBet \in {Undefined, 0}
                              THEN hand.bet ELSE hand.originalBet)
                    /\ playerHands'[i].bet = hand.bet
                    /\ playerHands'[i].originalBet = hand.originalBet
                    /\ \A k \in 1..Len(playerHands) :
                           /\ k < i => playerHands'[k] = playerHands[k]
                           /\ k > i => playerHands'[k + 1] = playerHands[k]
                    /\ currentHandIndex' = currentHandIndex
                    /\ dealerHand' = dealerHand]_vars

\* a Jack and a Queen were split into two hands of two cards
C11_Witness ==
    /\ lastOp.name = "split"
    /\ ~threw
    /\ Len(playerHands) = 2
    /\ playerHands[1].cards[1].rank # playerHands[2].cards[1].rank
    /\ Len(playerHands[1].cards) = 2 /\ Len(playerHands[2].cards) = 2

\* C12: double(i) raises an error unless hand i holds exactly 2 cards.  On
\* success it makes exactly one deal() call and adds that card to hand i,
\* sets doubled, leaves the bet at twice originalBet (originalBet taken from
\* the bet of before when it was unset), marks the hand hasStood exactly when
\* the hand is not busted after the card, and ends the hand exactly once.
C12_Double ==
    [][lastOp'.name = "double" =>
          LET i == lastOp'.handIndex + 1
              hand == playerHands[i]
              after == playerHands'[i]
          IN  /\ threw' <=> Len(hand.cards) # 2
              /\ ~threw' =>
                    /\ Len(returned') = 1
                    /\ Len(returned'[1]) = 1
                    /\ after.cards = hand.cards \o returned'[1]
                    /\ after.doubled
                    /\ after.originalBet
                           = (IF hand.originalBet \in {Undefined, 0}
                              THEN hand.bet ELSE hand.originalBet)
                    /\ after.bet = 2 * after.originalBet
                    /\ ~isBusted(after) => after.hasStood
                    /\ isBusted(after) => after.hasStood = hand.hasStood
                    /\ ended' = <<lastOp'.handIndex>>
                    /\ Len(playerHands') = Len(playerHands)
                    /\ currentHandIndex' =
                           (IF i < Len(playerHands) THEN i ELSE currentHandIndex)]_vars

\* a bet of 10 was doubled and the hand, not busted, was stood
C12_Witness ==
    /\ lastOp.name = "double"
    /\ ~threw
    /\ playerHands[lastOp.handIndex + 1].bet = 20
    /\ playerHands[lastOp.handIndex + 1].hasStood
    /\ ~isBusted(playerHands[lastOp.handIndex + 1])

\* a double busted the hand; the hand was not stood
C12_WitnessBusted ==
    /\ lastOp.name = "double"
    /\ ~threw
    /\ isBusted(playerHands[lastOp.handIndex + 1])
    /\ ~playerHands[lastOp.handIndex + 1].hasStood

\* C13: surrender(i) raises an error exactly when allowSurrender is false or
\* hand i holds more than 2 cards; otherwise it sets hasSurrendered on hand i,
\* deals no card and ends the hand: currentHandIndex becomes i+1 if a later
\* hand exists and is unchanged if not.
C13_Surrender ==
    [][lastOp'.name = "surrender" =>
          LET i == lastOp'.handIndex + 1
              hand == playerHands[i]
          IN  /\ threw' <=> (~allowSurrender \/ Len(hand.cards) > 2)
              /\ ~threw' =>
                    /\ playerHands' =
                           [playerHands EXCEPT ![i].hasSurrendered = TRUE]
                    /\ returned' = <<>>
                    /\ UNCHANGED <<shoe, nextId, dealerHand>>
                    /\ ended' = <<lastOp'.handIndex>>
                    /\ currentHandIndex' =
                           (IF i < Len(playerHands) THEN i ELSE currentHandIndex)]_vars

\* the first of two hands surrendered and the turn moved to the second
C13_Witness ==
    /\ lastOp = Op("surrender", 0)
    /\ ~threw
    /\ Len(playerHands) = 2
    /\ playerHands[1].hasSurrendered
    /\ currentHandIndex = 1

\* C14: a bet placed with placeBet(amount) stays on the round's initial
\* player hand: once set, playerHands[0].originalBet keeps its value until
\* settleAllHands or the next placeBet, also when the page calls
\* placeBet(amount) and then dealInitialCards().
C14_BetStays ==
    [][(/\ playerHands[1].originalBet \notin {Undefined, 0}
        /\ lastOp'.name \notin {"placeBet", "handleBetPlacement", "settleAllHands"})
       => playerHands'[1].originalBet = playerHands[1].originalBet]_vars

\* C15: dealInitialCards() activates round tracking on the shoe, replaces the
\* hands by an empty dealer hand and a single empty player hand with
\* currentHandIndex 0, and then makes exactly four deal() calls whose results
\* go, in call order, to player, dealer, player, dealer: both hands end with
\* exactly two cards.
C15_DealOrder ==
    [][lastOp'.name = "dealInitialCards" =>
          /\ shoe'.tracking
          /\ Len(returned') = 4
          /\ playerHands' =
                 <<[NewHand EXCEPT !.cards = returned'[1] \o returned'[3]]>>
          /\ dealerHand' = [NewHand EXCEPT !.cards = returned'[2] \o returned'[4]]
          /\ Len(playerHands'[1].cards) = 2
          /\ Len(dealerHand'.cards) = 2
          /\ currentHandIndex' = 0]_vars

\* the initial deal replaced the hands of an earlier round that was still
\* open
C15_Witness ==
    /\ lastOp.name = "dealInitialCards"
    /\ ops >= 2
    /\ shoe.tracking
    /\ Len(playerHands) = 1
    /\ Len(playerHands[1].cards) = 2
    /\ Len(dealerHand.cards) = 2
    /\ playerHands[1].cards[1].id > 4

\* C16: settleAllHands() adds every card of the dealer hand and of every
\* player hand to shoe.discardPile, each exactly once, leaves shoe.cards
\* unchanged, deactivates the shoe's round tracking, and leaves an empty
\* dealer hand and a single empty player hand with currentHandIndex 0.
C16_Settle ==
    [][lastOp'.name = "settleAllHands" =>
          /\ shoe'.discardPile = shoe.discardPile (+) SeqToBag(InHands)
          /\ shoe'.cards = shoe.cards
          /\ ~shoe'.tracking
          /\ dealerHand' = NewHand
          /\ playerHands' = <<NewHand>>
          /\ currentHandIndex' = 0
          /\ returned' = <<>>]_vars

\* two split hands and the dealer hand, six cards, were settled
C16_Witness ==
    /\ lastOp.name = "settleAllHands"
    /\ BagCardinality(shoe.discardPile) = 6
    /\ ~shoe.tracking
    /\ playerHands = <<NewHand>>

\* the number of Aces of a hand
AcesOf(hand) == Cardinality({k \in 1..Len(hand.cards) : hand.cards[k].rank = "A"})

\* the total of the cards of a hand other than its Aces
RECURSIVE OthersTotal(_)
OthersTotal(cs) ==
    IF cs = <<>> THEN 0
    ELSE (IF Head(cs).rank = "A" THEN 0 ELSE RankValue(Head(cs).rank))
             + OthersTotal(Tail(cs))

\* the totals of a hand: every Ace counts 1 or 11
Totals(hand) ==
    {OthersTotal(hand.cards) + AcesOf(hand) + 10 * k : k \in 0..AcesOf(hand)}

\* the largest total not above 21, or the total with every Ace as 1
BestTotal(hand) ==
    LET fitting == {t \in Totals(hand) : t <= 21}
    IN  IF fitting # {}
        THEN CHOOSE t \in fitting : \A u \in fitting : u <= t
        ELSE OthersTotal(hand.cards) + AcesOf(hand)

\* C17: getScore() equals the largest total not above 21 obtainable by
\* counting each Ace as 1 or 11 and every other card at its value, or, when
\* there is none, the total with every Ace counted as 1; isBusted() is true
\* exactly when that score exceeds 21.
C17_Score ==
    /\ lastOp.name = "getScore" => retval = <<BestTotal(dealerHand)>>
    /\ lastOp.name = "isBusted" => retval = <<BestTotal(dealerHand) > 21>>

\* the score of two Aces and a nine, 21, was taken
C17_Witness ==
    /\ lastOp.name = "getScore"
    /\ Len(dealerHand.cards) = 3
    /\ AcesOf(dealerHand) = 2
    /\ OthersTotal(dealerHand.cards) = 9
    /\ retval = <<21>>

\* a hand of Aces and other cards with no total up to 21 was found busted
C17_WitnessBusted ==
    /\ lastOp.name = "isBusted"
    /\ AcesOf(dealerHand) >= 1
    /\ retval = <<TRUE>>

\* a soft total: some Ace is counted as 11 in the score
Soft(hand) == BestTotal(hand) > OthersTotal(hand.cards) + AcesOf(hand)

\* C18: shouldDealerHit() is true exactly when the dealer's score is below
\* 17, or is 17 with some Ace counted as 11 (a soft 17) while standOnSoft17 is
\* false; it is false for every hard 17 and every score above 17.
C18_DealerHits ==
    lastOp.name = "shouldDealerHit" =>
        retval[1] = (\/ BestTotal(dealerHand) < 17
                       \/ /\ BestTotal(dealerHand) = 17
                          /\ Soft(dealerHand)
                          /\ ~standOnSoft17)

\* the base bet of a hand: the first non-zero value among originalBet, bet
\* and the page's selectedBet, else 0
BaseBet(hand, selectedBet) ==
    IF hand.originalBet \notin {Undefined, 0} THEN hand.originalBet
    ELSE IF hand.bet # 0 THEN hand.bet
    ELSE selectedBet

\* twice the payout of a result, so that halves stay whole numbers
TwicePayout(result, hand, selectedBet) ==
    LET base == BaseBet(hand, selectedBet)
        betSize == IF hand.doubled THEN 2 * base ELSE base
    IN  IF result = "blackjack" THEN 5 * base
        ELSE IF result = "win" THEN 4 * betSize
        ELSE IF result = "push" THEN 2 * betSize
        ELSE IF result = "surrender" THEN base
        ELSE 0

\* C19: handleGameEnd credits to chips: blackjack 2.5 x base, win 2 x betSize,
\* push betSize, surrender 0.5 x base, lose or busted 0, where betSize is
\* 2 x base for a doubled hand and base otherwise, and base is the first
\* non-zero value among hand.originalBet, hand.bet and selectedBet, else 0.
C19_Payout ==
    [][lastOp'.name = "handleGameEnd" =>
          2 * (chips' - chips)
              = TwicePayout(lastOp'.result, playerHands[currentHandIndex + 1],
                            ui.selectedBet)]_vars

\* a blackjack on a hand without a bet of its own was paid 25 for the
\* selected bet of 10
C19_Witness ==
    /\ lastOp.name = "handleGameEnd"
    /\ ops = 1
    /\ lastOp.result = "blackjack"
    /\ playerHands[1].originalBet = Undefined
    /\ playerHands[1].bet = 0
    /\ ui.selectedBet = 10
    /\ chips = startingChips + 25

\* C20: hit(i) makes exactly one deal() call, appends the returned card to
\* hand i and returns that same card; if hand i is then busted the hand is
\* ended (currentHandIndex becomes i+1 when a later hand exists), otherwise
\* currentHandIndex is unchanged; the dealer hand and every other player hand
\* are unchanged.
C20_Hit ==
    [][lastOp'.name = "hit" =>
          LET i == lastOp'.handIndex + 1
              hand == playerHands[i]
              after == playerHands'[i]
          IN  /\ Len(returned') = 1
              /\ Len(returned'[1]) = 1
              /\ after = [hand EXCEPT !.cards = hand.cards \o returned'[1]]
              /\ retval' = returned'[1]
              /\ isBusted(after) =>
                    /\ ended' = <<lastOp'.handIndex>>
                    /\ currentHandIndex' =
                           (IF i < Len(playerHands) THEN i ELSE currentHandIndex)
              /\ ~isBusted(after) =>
                    /\ ended' = <<>>
                    /\ currentHandIndex' = currentHandIndex
              /\ dealerHand' = dealerHand
              /\ Len(playerHands') = Len(playerHands)
              /\ \A k \in 1..Len(playerHands) :
                     k # i => playerHands'[k] = playerHands[k]
              /\ ~threw']_vars

\* a hit busted the first of two hands and the turn moved to the second
C20_Witness ==
    /\ lastOp = Op("hit", 0)
    /\ Len(playerHands) = 2
    /\ isBusted(playerHands[1])
    /\ ~isBusted(playerHands[2])
    /\ currentHandIndex = 1
    /\ retval = <<playerHands[1].cards[Len(playerHands[1].cards)]>>

\* C21: an operation that ends the last player hand (stand, a hit or double
\* that busts, surrender, double) leaves currentHandIndex, the dealer hand,
\* the number of player hands and the shoe's round tracking as they were and
\* puts no card on the discard pile; the dealer hand gets a card and the
\* discard pile grows only in dealInitialCards, dealerPlay and
\* settleAllHands.  An operation that ends a hand with a later hand sets
\* currentHandIndex to the ended hand's index plus one.
C21_EndHand ==
    [][/\ (lastOp'.name \in {"stand", "hit", "surrender", "double"} /\ ended' # <<>>) =>
            /\ ended' = <<lastOp'.handIndex>>
            /\ IF lastOp'.handIndex < Len(playerHands) - 1
               THEN currentHandIndex' = lastOp'.handIndex + 1
               ELSE /\ currentHandIndex' = currentHandIndex
                    /\ dealerHand' = dealerHand
                    /\ Len(playerHands') = Len(playerHands)
                    /\ shoe'.tracking = shoe.tracking
                    /\ shoe.currentRoundDealt \subseteq shoe'.currentRoundDealt
                    /\ shoe'.discardPile \sqsubseteq shoe.discardPile
       /\ dealerHand'.cards # dealerHand.cards =>
            lastOp'.name \in {"dealInitialCards", "dealerPlay", "settleAllHands"}
       /\ ~(shoe'.discardPile \sqsubseteq shoe.discardPile) =>
            lastOp'.name = "settleAllHands"]_vars

\* the second of two split hands, the last one, was stood after the first:
\* the turn stays with it, the dealer holds the two cards of the deal and
\* the round is still tracked
C21_Witness ==
    /\ lastOp = Op("stand", 1)
    /\ Len(playerHands) = 2
    /\ playerHands[1].hasStood /\ playerHands[2].hasStood
    /\ currentHandIndex = 1
    /\ Len(dealerHand.cards) = 2
    /\ shoe.tracking
    /\ shoe.discardPile = EmptyBag

\* C22: isBlackjack() is true exactly when the hand holds exactly two cards
\* and its score is 21, that is an Ace and a card of value 10; a hand of
\* three or more cards scoring 21 is never a blackjack.
C22_IsBlackjack ==
    lastOp.name = "isBlackjack" =>
        /\ retval = <<Len(dealerHand.cards) = 2 /\ BestTotal(dealerHand) = 21>>
        /\ retval = <<TRUE>> <=>
               /\ Len(dealerHand.cards) = 2
               /\ AcesOf(dealerHand) = 1
               /\ OthersTotal(dealerHand.cards) = 10
        /\ Len(dealerHand.cards) >= 3 => retval = <<FALSE>>

\* two Aces and a nine, scoring 21, were found not to be a blackjack
C22_Witness ==
    /\ lastOp.name = "isBlackjack"
    /\ Len(dealerHand.cards) = 3
    /\ AcesOf(dealerHand) = 2
    /\ BestTotal(dealerHand) = 21
    /\ retval = <<FALSE>>

\* an Ace and a King were found to be a blackjack
C22_WitnessNatural ==
    /\ lastOp.name = "isBlackjack"
    /\ Len(dealerHand.cards) = 2
    /\ dealerHand.cards[1].rank = "A"
    /\ dealerHand.cards[2].rank = "K"
    /\ retval = <<TRUE>>

\* C23: fresh decks are built after construction only by a deal() call that
\* finds both cards and discardPile empty, and that build is numberOfDecks
\* decks of new cards.  The refill of a deal() call that finds cards empty
\* and discardPile non-empty makes cards the former discardPile and empties
\* discardPile; over the whole call no card is created or dropped: the
\* former discardPile is the returned card, the new cards and the cards the
\* search put back on discardPile as duplicates of the round.
C23_RefillStep ==
    (BagCardinality(shoe.cards) = 0 /\ BagCardinality(shoe.discardPile) > 0) =>
        DealRefill(shoe, nextId)
            = [shoe   |-> [shoe EXCEPT !.cards = shoe.discardPile,
                                       !.discardPile = EmptyBag],
               nextId |-> nextId]

C23_Rebuild ==
    /\ nextId' # nextId =>
          /\ lastOp'.name = "deal"
          /\ lastOp'.entry = "empty"
          /\ nextId' = nextId + ShoeSize
          /\ shoe'.cards (+) SeqToBag(retval')
                 = SeqToBag(FreshDecks(shoe.numberOfDecks, nextId))
          /\ shoe'.discardPile = EmptyBag
    /\ (lastOp'.name = "deal" /\ lastOp'.entry = "empty") => nextId' # nextId
    /\ (lastOp'.name = "deal" /\ lastOp'.entry = "discardPile") =>
          /\ nextId' = nextId
          /\ Len(retval') = 1
          /\ shoe'.cards (+) shoe'.discardPile (+) SeqToBag(retval')
                 = shoe.discardPile
          /\ \A c \in BagToSet(shoe'.discardPile) :
                 shoe.tracking /\ c.id \in shoe.currentRoundDealt

C23_Refill == []C23_RefillStep /\ [][C23_Rebuild]_vars

\* a deal() call found cards empty and two or more cards on discardPile: it
\* returned one of them and the others are the new cards
C23_Witness ==
    /\ lastOp.name = "deal"
    /\ lastOp.entry = "discardPile"
    /\ Len(retval) = 1
    /\ BagCardinality(shoe.cards) >= 1
    /\ shoe.discardPile = EmptyBag
    /\ nextId = ShoeSize + 1

\* a deal() call found both arrays empty and built the shoe anew
C23_WitnessRebuild ==
    /\ lastOp.name = "deal"
    /\ lastOp.entry = "empty"
    /\ nextId = 2 * ShoeSize + 1
    /\ BagCardinality(shoe.cards) = ShoeSize - 1

\* the cards array when the search of a deal() call starts: cards, or the
\* discard pile when cards is empty, or fresh decks when both are
SearchStart ==
    IF BagCardinality(shoe.cards) > 0 THEN shoe.cards
    ELSE IF BagCardinality(shoe.discardPile) > 0 THEN shoe.discardPile
    ELSE SeqToBag(FreshDecks(shoe.numberOfDecks, nextId))

\* the discard pile when the search of a deal() call starts
SearchStartDiscard ==
    IF BagCardinality(shoe.cards) > 0 THEN shoe.discardPile ELSE EmptyBag

\* every card in cards when the search starts has been dealt in the round:
\* the search finds no card and the fallback pops one
AllDealtInRound ==
    \A c \in BagToSet(SearchStart) : c.id \in shoe.currentRoundDealt

\* C24: with a round open, deal() returns a card whose id is already in the
\* round's dealt set only through the fallback, that is only if every card
\* that was in cards when the search started had its id in that set; the
\* fallback leaves the discard pile empty, the skipped cards back in cards.
\* Otherwise the cards the search skipped, all duplicates of the round, are
\* added to discardPile.  No card is lost, and the returned card's id is in
\* the dealt set afterwards.
C24_DuplicateOnlyByFallback ==
    [][(lastOp'.name = "deal" /\ shoe.tracking) =>
          /\ Len(retval') = 1
          /\ shoe'.tracking
          /\ shoe'.currentRoundDealt = shoe.currentRoundDealt \cup {retval'[1].id}
          /\ lastOp'.repeat = (retval'[1].id \in shoe.currentRoundDealt)
          /\ lastOp'.repeat => AllDealtInRound
          /\ AllDealtInRound => shoe'.discardPile = EmptyBag
          /\ ~AllDealtInRound =>
                /\ SearchStartDiscard \sqsubseteq shoe'.discardPile
                /\ \A c \in BagToSet(shoe'.discardPile (-) SearchStartDiscard) :
                       c.id \in shoe.currentRoundDealt
          /\ shoe'.cards (+) shoe'.discardPile (+) SeqToBag(retval')
                 = SearchStart (+) SearchStartDiscard]_vars

\* with a round open, a deal() call returned a card the round had dealt
\* before, through the fallback
C24_Witness ==
    /\ lastOp.name = "deal"
    /\ lastOp.repeat
    /\ shoe.tracking
    /\ retval[1].id \in shoe.currentRoundDealt
    /\ shoe.discardPile = EmptyBag

\* with a round open, a deal() call skipped a duplicate, put it on the
\* discard pile and returned a card the round had not dealt
C24_WitnessSkipped ==
    /\ lastOp.name = "deal"
    /\ ~lastOp.repeat
    /\ shoe.tracking
    /\ lastOp.entry = "discardPile"
    /\ BagCardinality(shoe.discardPile) >= 1

\* C25: in the flow select chip, Place Bet, deal, Double, dealer play,
\* result, the Double click debits chips by one more base bet, the value of
\* the chip selected, so that a doubled hand that pushes is paid back to the
\* balance of before the chip was selected and one that wins to 2 x base
\* above it.
C25_DoubleDebits ==
    [][(/\ lastOp'.name = "handleDouble"
        /\ ~threw'
        /\ playerHands'[currentHandIndex + 1].doubled)
       => chips' = chips - ui.selectedBet]_vars

\* the timers of the given kinds that are pending
Pending(ts, kinds) == {k \in 1..Len(ts) : ts[k].kind \in kinds}

\* a result is on display: handleGameEnd has run and the settleAllHands call
\* it leads to has not
ResultShown == Pending(timers, {"hideResult", "clearTable"}) # {}

\* handleGameEnd runs in the step, it alone sets the timer of showResult,
\* and credits a payout
Credits ==
    /\ Cardinality(Pending(timers', {"hideResult"}))
           > Cardinality(Pending(timers, {"hideResult"}))
    /\ chips' > chips

\* C26: in every interleaving of clicks and timers a round credits a payout
\* at most once, so handleGameEnd credits nothing while an earlier result
\* of the round is still on display, and calls settleAllHands at most once,
\* so no result and no settlement is pending when settleAllHands has run.
C26_OnePayoutPerRound ==
    [][/\ Credits => ~ResultShown
       /\ lastOp'.name = "settleAllHands" =>
              Pending(timers', {"handleGameEnd", "hideResult", "clearTable"}) = {}]_vars

\* the handlers of the five action buttons
PlayerActions ==
    {"handleHit", "handleStand", "handleDouble", "handleSplit", "handleSurrender"}

\* Place Bet has been clicked and the deal it leads to has not run
DealPending == Pending(timers, {"showActionControls", "dealInitialCards"}) # {}

\* C27: a player action reaches the engine only after the round's
\* dealInitialCards: while the deal that Place Bet scheduled is pending no
\* action button can be clicked, and the hand that dealInitialCards will
\* replace is dealt no card.
C27_NoActionBeforeDeal ==
    [][/\ lastOp'.name \in PlayerActions => ~DealPending
       /\ DealPending => playerHands'[1].cards = playerHands[1].cards]_vars

\* the dealer's turn is over: the guard of the loop was found false
DealerDone == lastOp.name = "shouldDealerHit" /\ retval = <<FALSE>>

\* the total of a hand with every Ace counted as 1
HardTotal(hand) == OthersTotal(hand.cards) + AcesOf(hand)

\* C28: from any dealer hand, calling dealerPlay() while shouldDealerHit()
\* is true comes to an end after finitely many cards (each card raises the
\* total with every Ace as 1, and the guard is false above 17), with a dealer
\* score of 17 or more that is not a soft 17 when standOnSoft17 is false;
\* each dealerPlay() makes exactly one deal() call, appends that card to the
\* dealer hand and leaves the player hands and currentHandIndex alone.
C28_Stops == <>DealerDone

C28_StopsAbove16 ==
    DealerDone =>
        /\ BestTotal(dealerHand) >= 17
        /\ ~standOnSoft17 => ~(BestTotal(dealerHand) = 17 /\ Soft(dealerHand))

C28_Variant == shouldDealerHit(Game) => HardTotal(dealerHand) <= 17

C28_OneCard ==
    lastOp'.name = "dealerPlay" =>
        /\ Len(returned') = 1
        /\ Len(returned'[1]) = 1
        /\ dealerHand' = [dealerHand EXCEPT !.cards = @ \o returned'[1]]
        /\ retval' = returned'[1]
        /\ HardTotal(dealerHand') > HardTotal(dealerHand)
        /\ UNCHANGED <<playerHands, currentHandIndex>>

C28_DealerLoop ==
    /\ C28_Stops
    /\ [](C28_StopsAbove16 /\ C28_Variant)
    /\ [][C28_OneCard]_vars

\* under H17 the dealer started on an Ace and a six, a soft 17, drew and
\* came to a stop on 17 or more
C28_Witness ==
    /\ DealerDone
    /\ ~standOnSoft17
    /\ ops >= 1
    /\ Len(dealerHand.cards) >= 3
    /\ dealerHand.cards[1].rank = "A"
    /\ dealerHand.cards[2].rank = "6"
    /\ BestTotal(dealerHand) >= 17

\* C29: a settleAllHands() call that follows a settleAllHands() call leaves
\* the state as the first call left it: no card is added to discardPile, the
\* shoe, the hands and currentHandIndex are unchanged, and the cards of the
\* shoe, the discard pile and the hands are as many as before.
C29_SettleTwice ==
    [][(lastOp'.name = "settleAllHands" /\ lastOp.name = "settleAllHands") =>
          /\ UNCHANGED <<shoe, nextId, dealerHand, playerHands, currentHandIndex,
                         notices>>
          /\ BagCardinality(InPlay') = BagCardinality(InPlay)]_vars

\* the round dealt was settled, its four cards went to the discard pile, and
\* then settled again
C29_Witness ==
    /\ lastOp.name = "settleAllHands"
    /\ lastOp.again
    /\ ops = 3
    /\ BagCardinality(shoe.discardPile) = 4
    /\ dealerHand = NewHand
    /\ playerHands = <<NewHand>>

\* C30: while the actions of a round are called with the default hand
\* index, currentHandIndex never decreases: it rises by exactly one when the
\* hand in turn ends (it is stood, surrendered, doubled or busted by a hit)
\* and is not the last hand, and stays as it is otherwise, so the hands get
\* their turn from left to right, the hand a split inserts right after its
\* source, and none is skipped.
C30_LeftToRight ==
    [][(/\ lastOp'.name \in {"hit", "stand", "surrender", "double", "split",
                            "placeBet", "dealerPlay"}
        /\ lastOp'.handIndex \in {currentHandIndex, NoIndex})
       => LET i == currentHandIndex + 1
              endsHand ==
                  /\ ~threw'
                  /\ \/ lastOp'.name \in {"stand", "surrender", "double"}
                     \/ lastOp'.name = "hit" /\ isBusted(playerHands'[i])
          IN  /\ currentHandIndex' >= currentHandIndex
              /\ currentHandIndex' =
                     (IF endsHand /\ i < Len(playerHands)
                      THEN currentHandIndex + 1
                      ELSE currentHandIndex)
              /\ lastOp'.name = "split" /\ ~threw' =>
                     /\ Len(playerHands') = Len(playerHands) + 1
                     /\ \A k \in 1..Len(playerHands) :
                            k > i => playerHands'[k + 1] = playerHands[k]]_vars

\* the first of two split hands was doubled in its turn and the turn moved
\* to the second
C30_Witness ==
    /\ lastOp = Op("double", 0)
    /\ ~threw
    /\ Len(playerHands) = 2
    /\ playerHands[1].doubled
    /\ playerHands[2].isSplit
    /\ ~Terminal(playerHands[2])
    /\ currentHandIndex = 1

\* the operations of Blackjack
EngineOps ==
    {"dealInitialCards", "placeBet", "hit", "stand", "double", "split",
     "surrender", "dealerPlay", "shouldDealerHit", "settleAllHands"}

\* C31: no operation of the engine (dealInitialCards, placeBet, hit, stand,
\* double, split, surrender, dealerPlay, shouldDealerHit, settleAllHands)
\* changes chips, whether it returns or raises an error; a double that
\* succeeds doubles the bet of its hand and a split that succeeds adds a hand
\* carrying the bet of the hand it split, and chips is the same before and
\* after both.
C31_ChipsUntouched ==
    [][/\ lastOp'.name \in EngineOps
       /\ chips' = chips
       /\ (lastOp'.name = "double" /\ ~threw') =>
              /\ playerHands'[lastOp'.handIndex + 1].bet
                     = 2 * playerHands[lastOp'.handIndex + 1].bet
              /\ chips' = chips
       /\ (lastOp'.name = "split" /\ ~threw') =>
              /\ Len(playerHands') = Len(playerHands) + 1
              /\ playerHands'[lastOp'.handIndex + 2].bet
                     = playerHands[lastOp'.handIndex + 1].bet
              /\ chips' = chips]_vars

\* a bet of 10 was placed and doubled to 20; the balance is the one the game
\* started with
C31_Witness ==
    /\ lastOp.name = "double"
    /\ ~threw
    /\ playerHands[lastOp.handIndex + 1].originalBet = 10
    /\ playerHands[lastOp.handIndex + 1].bet = 20
    /\ chips = startingChips

\* a hand with a bet of 10 was split into two hands with a bet of 10 each;
\* the balance is the one the game started with
C31_WitnessSplit ==
    /\ lastOp.name = "split"
    /\ ~threw
    /\ Len(playerHands) = 2
    /\ playerHands[1].bet = 10
    /\ playerHands[2].bet = 10
    /\ chips = startingChips

\* shouldDealerHit() returned and the balance is the one the game started with
C31_WitnessGuard ==
    /\ lastOp.name = "shouldDealerHit"
    /\ Len(dealerHand.cards) = 2
    /\ retval = <<TRUE>>
    /\ chips = startingChips

\* C32: in deal() the search loop runs at most as many iterations as cards
\* held when it started, which is fewer than the attempt limit
\* max(10, cards.length + 5); a loop that returns no card has popped every
\* one of those cards, so at the fallback cards is empty and discardPile is
\* not.
C32_SearchBound ==
    [][lastOp'.name = "deal" =>
          LET available == BagCardinality(SearchStart)
              search    == lastOp'.search
          IN  /\ search.attempts <= available
              /\ search.attempts < Max(MinAttempts, available + ExtraAttempts)
              /\ search.found => search.attempts >= 1
              /\ ~search.found =>
                    /\ search.attempts = available
                    /\ search.cards = 0
                    /\ search.discardPile > 0]_vars

\* a search popped two or more cards, all dealt in the round before, and
\* fell through to the fallback with cards empty
C32_Witness ==
    /\ lastOp.name = "deal"
    /\ ~lastOp.search.found
    /\ lastOp.search.attempts >= 2
    /\ lastOp.search.cards = 0
    /\ lastOp.search.discardPile >= 2

\* a search skipped duplicates and then returned a card, cards left over
C32_WitnessFound ==
    /\ lastOp.name = "deal"
    /\ lastOp.search.found
    /\ lastOp.search.attempts >= 2
    /\ lastOp.search.cards >= 1
====
